---- MODULE Spec2Model ----
(***************************************************************************)
(* Verification model of the pin-annotation PDF tool: the coordinate       *)
(* transform and export drawing of src/utils/pdfUtils.ts, and the freehand *)
(* stroke store and drawing gestures of contexts/PDFContext.tsx and the    *)
(* FreehandCanvas components.                                              *)
(*                                                                         *)
(* Units.  Percentage coordinates are integers.  PDF coordinates are kept  *)
(* in hundredths of a point, so that (p / 100) * W is the integer p * W    *)
(* and no rounding is introduced by the model.  The zoom factor is kept in *)
(* tenths (scale10 = 10 is scale 1).                                       *)
(***************************************************************************)
EXTENDS Integers, Sequences, FiniteSets, TLC

VARIABLES
    job,             \* export: the entity, page geometry and zoom handed to an export
    out,             \* export: what the export drew
    strokes,         \* PDFContext: the stroke store
    nextId,          \* PDFContext: ids handed out so far (nanoid is modelled as a counter)
    pageNumber,      \* FreehandCanvas prop: the page the canvas lies on
    mounted,         \* which FreehandCanvas variant is mounted
    drawing,         \* FreehandCanvas effect closure
    currentPoints,   \* FreehandCanvas effect closure
    continuingDraft, \* FreehandCanvas effect closure
    draftStrokeId,   \* FreehandCanvas effect closure
    events,          \* number of pointer-down and pointer-move events so far
    lastOp,          \* the handler that ran last and the answer window.confirm gave it
    highlights,         \* PDFContext: the highlight store
    selectedHighlight,  \* PDFContext: id of the selected highlight, 0 for null
    isSelecting,        \* PDFViewer state: a highlight selection is being dragged out
    selectionStart,     \* PDFViewer state: where the selection started, NoPoint for null
    marker,             \* HighlightMarker: closure of the drag or resize gesture in progress
    pins,               \* PDFContext: the pin store
    selectedPin,        \* PDFContext: id of the selected pin, 0 for null
    pinDetail,          \* PDFViewer state: the clicked place handed to the dialog, NoPoint for null
    isOpen,             \* PDFViewer state: the pin dialog is visible
    isHighlightingMode, \* PDFViewer state
    isPinningMode,      \* PDFViewer state
    isMarkerMode,       \* PDFViewer state
    isEraserMode,       \* PDFViewer state
    isDragMode,         \* PDFContext
    markerMoves         \* number of mouse-move events of HighlightMarker gestures so far

exportVars == <<job, out>>

closureVars == <<drawing, currentPoints, continuingDraft, draftStrokeId>>

canvasVars == <<strokes, nextId, pageNumber, mounted, drawing, currentPoints,
                continuingDraft, draftStrokeId, events, lastOp>>

modeVars == <<isHighlightingMode, isPinningMode, isMarkerMode, isEraserMode, isDragMode>>

highlightVars == <<highlights, selectedHighlight, isSelecting, selectionStart, marker>>

pinVars == <<pins, selectedPin, pinDetail, isOpen>>

viewerVars == <<highlightVars, pinVars, modeVars, markerMoves>>

vars == <<job, out, strokes, nextId, pageNumber, mounted, drawing, currentPoints,
          continuingDraft, draftStrokeId, events, lastOp, viewerVars>>

-----------------------------------------------------------------------------
(* Values *)

\* {x: null, y: null}: the coordinate value of a pen-lift marker.
Null == -1000

\* JavaScript numeric coercion of a coordinate: null behaves as 0.
Num(v) == IF v = Null THEN 0 ELSE v

Pt(x, y) == [x |-> x, y |-> y]

LiftMarker == Pt(Null, Null)

\* pt.x == null || pt.y == null
IsMarker(pt) == pt.x = Null \/ pt.y = Null

PIN_WIDTH == 24

PIN_HEIGHT == 24

-----------------------------------------------------------------------------
(* Coordinate transform *)

getRotatedCoordinates_SwapPage(px, py, width, height, rotation) ==
    IF rotation = 90 THEN Pt(Num(py) * height, Num(px) * width)
    ELSE IF rotation = 180 THEN Pt(100 * width - Num(px) * width, Num(py) * height)
    ELSE IF rotation = 270
         THEN Pt(100 * width - Num(py) * width, 100 * height - Num(px) * height)
    ELSE Pt(Num(px) * width, 100 * height - Num(py) * height)

getRotatedCoordinates_NoFlip(px, py, width, height, rotation) ==
    IF rotation = 90 THEN Pt(Num(py) * width, Num(px) * height)
    ELSE IF rotation = 180 THEN Pt(100 * width - Num(px) * width, Num(py) * height)
    ELSE IF rotation = 270
         THEN Pt(100 * width - Num(py) * width, 100 * height - Num(px) * height)
    ELSE Pt(Num(px) * width, Num(py) * height)

getRotatedCoordinates_DropAxis(px, py, width, height, rotation) ==
    IF rotation = 90 THEN Pt(Num(py) * width, Num(py) * height)
    ELSE IF rotation = 180 THEN Pt(100 * width - Num(px) * width, Num(py) * height)
    ELSE IF rotation = 270
         THEN Pt(100 * width - Num(py) * width, 100 * height - Num(px) * height)
    ELSE Pt(Num(px) * width, 100 * height - Num(py) * height)

getRotatedCoordinates(px, py, width, height, rotation) ==
    IF rotation = 90 THEN Pt(Num(py) * width, Num(px) * height)
    ELSE IF rotation = 180 THEN Pt(100 * width - Num(px) * width, Num(py) * height)
    ELSE IF rotation = 270
         THEN Pt(100 * width - Num(py) * width, 100 * height - Num(px) * height)
    ELSE Pt(Num(px) * width, 100 * height - Num(py) * height)

\* The point handed to page.drawSvgPath by downloadPDFWithPins.
PinDrawPoint(pin, width, height, rotation, scale10) ==
    IF rotation # 0
    THEN IF rotation = 90 THEN Pt(pin.y * width, pin.x * height)
         ELSE IF rotation = 180 THEN Pt(100 * width - pin.x * width, pin.y * height)
         ELSE IF rotation = 270
              THEN Pt(100 * width - pin.y * width + 1200,
                      100 * height - pin.x * height + 1200)
         ELSE Pt(pin.x * width, 100 * height - pin.y * height)
    ELSE LET x == pin.x * width
             y == 100 * height - pin.y * height
             \* PIN_WIDTH * (0.8 * scale) / 2, in hundredths of a point
             scaledPinWidth == (PIN_WIDTH * 8 * scale10) \div 2
             scaledPinHeight == (PIN_HEIGHT * 8 * scale10) \div 2
         IN  Pt((x - scaledPinWidth) - 250, (y + scaledPinHeight) + 500)

HighlightRect_NoSwap(h, width, height, rotation) ==
    IF rotation = 90
    THEN [x |-> h.y * width, y |-> h.x * height,
          width |-> h.width * width, height |-> h.height * height]
    ELSE IF rotation = 180
    THEN [x |-> 100 * width - h.x * width - h.width * width, y |-> h.y * height,
          width |-> h.width * width, height |-> h.height * height]
    ELSE IF rotation = 270 \/ rotation = -90
    THEN [x |-> 100 * width - h.y * width - h.height * width,
          y |-> 100 * height - h.x * height - h.width * height,
          width |-> h.height * width, height |-> h.width * height]
    ELSE [x |-> h.x * width, y |-> 100 * height - h.y * height - h.height * height,
          width |-> h.width * width, height |-> h.height * height]

\* The rectangle handed to page.drawRectangle by downloadPDFWithHighlights.
HighlightRect(h, width, height, rotation) ==
    IF rotation = 90
    THEN [x |-> h.y * width, y |-> h.x * height,
          width |-> h.height * width, height |-> h.width * height]
    ELSE IF rotation = 180
    THEN [x |-> 100 * width - h.x * width - h.width * width, y |-> h.y * height,
          width |-> h.width * width, height |-> h.height * height]
    ELSE IF rotation = 270 \/ rotation = -90
    THEN [x |-> 100 * width - h.y * width - h.height * width,
          y |-> 100 * height - h.x * height - h.width * height,
          width |-> h.height * width, height |-> h.width * height]
    ELSE [x |-> h.x * width, y |-> 100 * height - h.y * height - h.height * height,
          width |-> h.width * width, height |-> h.height * height]

-----------------------------------------------------------------------------
(* Stroke export *)

\* s.points.map(pt => getRotatedCoordinates(pt.x, pt.y, ...)) followed by the
\* loop over i: the pairs (absPoints[i], absPoints[i+1]) that are drawn.  Each
\* pair is drawn as the chain of interpolateLinePoints sub-segments, which
\* starts at p1 and ends at p2.
AnnotationLines(points, width, height, rotation) ==
    LET absPoints == [i \in 1..Len(points) |->
                        getRotatedCoordinates(points[i].x, points[i].y,
                                              width, height, rotation)]
    IN  {[from |-> i, to |-> i + 1,
          start |-> absPoints[i], end |-> absPoints[i + 1]] :
            i \in 1..(IF Len(points) = 0 THEN 0 ELSE Len(points) - 1)}

\* donwloadKeyPointForStroke: markers map to null and a pair with a null
\* member is skipped.
KeyPointLines(points, width, height, rotation) ==
    LET absPoints == [i \in 1..Len(points) |->
                        IF IsMarker(points[i]) THEN LiftMarker
                        ELSE getRotatedCoordinates(points[i].x, points[i].y,
                                                   width, height, rotation)]
        drawnAt == {i \in 1..(IF Len(points) = 0 THEN 0 ELSE Len(points) - 1) :
                        absPoints[i] # LiftMarker /\ absPoints[i + 1] # LiftMarker}
    IN  {[from |-> i, to |-> i + 1,
          start |-> absPoints[i], end |-> absPoints[i + 1]] : i \in drawnAt}

-----------------------------------------------------------------------------
(* Path simplifier *)

Sq(n) == n * n

\* Math.hypot(a.x - b.x, a.y - b.y) squared
Hypot2(a, b) == Sq(Num(a.x) - Num(b.x)) + Sq(Num(a.y) - Num(b.y))

\* Squared distances are exact rationals n / d; d = 0 stands for Infinity.
Rat(n, d) == [n |-> n, d |-> d]

Infinity == Rat(1, 0)

RatLess(a, b) == a.n * b.d < b.n * a.d

\* Variant: a distance equal to the tolerance also counts as exceeding it.
RatGreaterThan_OrEqual(a, t) == a.n >= Sq(t) * a.d

\* sqrt(a) > t for an integer t >= 0
RatGreaterThan(a, t) == a.n > Sq(t) * a.d

\* sqrt(a) <= t
RatAtMost(a, t) == a.n <= Sq(t) * a.d

\* perpendicularDistance(point, start, end), squared
perpendicularDistance(point, start, end) ==
    LET A == Num(point.x) - Num(start.x)
        B == Num(point.y) - Num(start.y)
        C == Num(end.x) - Num(start.x)
        D == Num(end.y) - Num(start.y)
        dot == A * C + B * D
        lenSq == C * C + D * D
    IN  IF lenSq = 0 THEN Rat(A * A + B * B, 1)
        ELSE IF dot < 0 THEN Rat(Hypot2(point, start), 1)
        ELSE IF dot > lenSq THEN Rat(Hypot2(point, end), 1)
        ELSE Rat((A * A + B * B) * lenSq - dot * dot, lenSq)

\* Variant: the loop stops one interior point early.
RECURSIVE ScanMax_SkipsLast(_, _, _, _)
ScanMax_SkipsLast(points, i, maxDistance, maxIndex) ==
    IF i > Len(points) - 2 THEN [maxDistance |-> maxDistance, maxIndex |-> maxIndex]
    ELSE LET distance == perpendicularDistance(points[i], points[1], points[Len(points)])
         IN  IF RatLess(maxDistance, distance)
             THEN ScanMax_SkipsLast(points, i + 1, distance, i)
             ELSE ScanMax_SkipsLast(points, i + 1, maxDistance, maxIndex)

\* The for loop of douglasPeucker: the first interior index of greatest
\* distance (0 when every interior point lies on the chord).
RECURSIVE ScanMax(_, _, _, _)
ScanMax(points, i, maxDistance, maxIndex) ==
    IF i > Len(points) - 1 THEN [maxDistance |-> maxDistance, maxIndex |-> maxIndex]
    ELSE LET distance == perpendicularDistance(points[i], points[1], points[Len(points)])
         IN  IF RatLess(maxDistance, distance)
             THEN ScanMax(points, i + 1, distance, i)
             ELSE ScanMax(points, i + 1, maxDistance, maxIndex)

\* Variant: the point at which the path is split is kept by both halves.
RECURSIVE douglasPeucker_KeepsJoin(_, _)
douglasPeucker_KeepsJoin(points, epsilon) ==
    IF Len(points) <= 2 THEN points
    ELSE LET m == ScanMax(points, 2, Rat(0, 1), 0)
         IN  IF RatGreaterThan(m.maxDistance, epsilon)
             THEN douglasPeucker_KeepsJoin(SubSeq(points, 1, m.maxIndex), epsilon)
                    \o douglasPeucker_KeepsJoin(SubSeq(points, m.maxIndex, Len(points)),
                                                epsilon)
             ELSE <<points[1], points[Len(points)]>>

\* Variant: the path is split at its middle point, not at the farthest one.
RECURSIVE douglasPeucker_MidSplit(_, _)
douglasPeucker_MidSplit(points, epsilon) ==
    IF Len(points) <= 2 THEN points
    ELSE LET m == ScanMax(points, 2, Rat(0, 1), 0)
             mid == (Len(points) + 1) \div 2
         IN  IF RatGreaterThan(m.maxDistance, epsilon)
             THEN LET leftSegment == douglasPeucker_MidSplit(SubSeq(points, 1, mid), epsilon)
                      rightSegment == douglasPeucker_MidSplit(SubSeq(points, mid, Len(points)),
                                                              epsilon)
                  IN  SubSeq(leftSegment, 1, Len(leftSegment) - 1) \o rightSegment
             ELSE <<points[1], points[Len(points)]>>

RECURSIVE douglasPeucker(_, _)
douglasPeucker(points, epsilon) ==
    IF Len(points) <= 2 THEN points
    ELSE LET m == ScanMax(points, 2, Rat(0, 1), 0)
         IN  IF RatGreaterThan(m.maxDistance, epsilon)
             THEN LET leftSegment == douglasPeucker(SubSeq(points, 1, m.maxIndex), epsilon)
                      rightSegment == douglasPeucker(SubSeq(points, m.maxIndex, Len(points)), epsilon)
                  IN  SubSeq(leftSegment, 1, Len(leftSegment) - 1) \o rightSegment
             ELSE <<points[1], points[Len(points)]>>

simplifyPath(points, tolerance) ==
    IF Len(points) <= 2 THEN points ELSE douglasPeucker(points, tolerance)

-----------------------------------------------------------------------------
(* Stroke overlap resolver *)

RatMin(a, b) == IF RatLess(b, a) THEN b ELSE a

SetMin(S) ==
    IF S = {} THEN Infinity
    ELSE LET e == CHOOSE r \in S : \A o \in S : ~RatLess(o, r)
         IN  e

\* getBBox: null coordinates take part in the comparisons as 0.
getBBox(pts) ==
    LET xs == {Num(pts[i].x) : i \in 1..Len(pts)}
        ys == {Num(pts[i].y) : i \in 1..Len(pts)}
    IN  [minX |-> CHOOSE v \in xs : \A w \in xs : v <= w,
         minY |-> CHOOSE v \in ys : \A w \in ys : v <= w,
         maxX |-> CHOOSE v \in xs : \A w \in xs : v >= w,
         maxY |-> CHOOSE v \in ys : \A w \in ys : v >= w]

\* pointSegmentDistance(px, py, x1, y1, x2, y2), squared
pointSegmentDistance(p, p1, p2) ==
    LET dx == Num(p2.x) - Num(p1.x)
        dy == Num(p2.y) - Num(p1.y)
        tn == (Num(p.x) - Num(p1.x)) * dx + (Num(p.y) - Num(p1.y)) * dy
        td == dx * dx + dy * dy
    IN  IF dx = 0 /\ dy = 0 THEN Rat(Hypot2(p, p1), 1)
        ELSE IF tn <= 0 THEN Rat(Hypot2(p, p1), 1)
        ELSE IF tn >= td THEN Rat(Hypot2(p, p2), 1)
        ELSE Rat(Hypot2(p, p1) * td - tn * tn, td)

polylineMinDistance(a, b) ==
    LET segD == {RatMin(RatMin(pointSegmentDistance(a[i], b[j], b[j + 1]),
                               pointSegmentDistance(a[i + 1], b[j], b[j + 1])),
                        RatMin(pointSegmentDistance(b[j], a[i], a[i + 1]),
                               pointSegmentDistance(b[j + 1], a[i], a[i + 1]))) :
                    i \in 1..(Len(a) - 1), j \in 1..(Len(b) - 1)}
        minD == SetMin(segD)
    IN  IF minD.d = 0
        THEN SetMin({Rat(Hypot2(a[i], b[j]), 1) : i \in 1..Len(a), j \in 1..Len(b)})
        ELSE minD

\* Variant: the bounding boxes are compared without the threshold.
OverlappingStrokes_TightBox(stroke, existingStrokes, overlapThreshold) ==
    IF Len(stroke.points) = 0 THEN <<>>
    ELSE LET threshold == IF overlapThreshold < 0 THEN 0 ELSE overlapThreshold
             strokeBox == getBBox(stroke.points)
             Hit(existing) ==
                /\ existing.pageNumber = stroke.pageNumber
                /\ ~existing.isDraft
                /\ Len(existing.points) > 0
                /\ LET box == getBBox(existing.points)
                       boxSeparated ==
                            \/ strokeBox.maxX < box.minX
                            \/ box.maxX < strokeBox.minX
                            \/ strokeBox.maxY < box.minY
                            \/ box.maxY < strokeBox.minY
                   IN  /\ ~boxSeparated
                       /\ RatAtMost(polylineMinDistance(stroke.points, existing.points),
                                    threshold)
         IN  SelectSeq(existingStrokes, Hit)

\* Variant: a negative threshold is replaced by its absolute value.
OverlappingStrokes_AbsThreshold(stroke, existingStrokes, overlapThreshold) ==
    IF Len(stroke.points) = 0 THEN <<>>
    ELSE LET threshold == IF overlapThreshold < 0 THEN -overlapThreshold ELSE overlapThreshold
             strokeBox == getBBox(stroke.points)
             Hit(existing) ==
                /\ existing.pageNumber = stroke.pageNumber
                /\ ~existing.isDraft
                /\ Len(existing.points) > 0
                /\ LET box == getBBox(existing.points)
                       boxSeparated ==
                            \/ strokeBox.maxX + threshold < box.minX
                            \/ box.maxX + threshold < strokeBox.minX
                            \/ strokeBox.maxY + threshold < box.minY
                            \/ box.maxY + threshold < strokeBox.minY
                   IN  /\ ~boxSeparated
                       /\ RatAtMost(polylineMinDistance(stroke.points, existing.points),
                                    threshold)
         IN  SelectSeq(existingStrokes, Hit)

\* The strokes checkStrokeOverlapAndConfirm collects in overlappingStrokes, as
\* the indices into existingStrokes, in order.
OverlappingStrokes(stroke, existingStrokes, overlapThreshold) ==
    IF Len(stroke.points) = 0 THEN <<>>
    ELSE LET threshold == IF overlapThreshold < 0 THEN 0 ELSE overlapThreshold
             strokeBox == getBBox(stroke.points)
             Hit(existing) ==
                /\ existing.pageNumber = stroke.pageNumber
                /\ ~existing.isDraft
                /\ Len(existing.points) > 0
                /\ LET box == getBBox(existing.points)
                       boxSeparated ==
                            \/ strokeBox.maxX + threshold < box.minX
                            \/ box.maxX + threshold < strokeBox.minX
                            \/ strokeBox.maxY + threshold < box.minY
                            \/ box.maxY + threshold < strokeBox.minY
                   IN  /\ ~boxSeparated
                       /\ RatAtMost(polylineMinDistance(stroke.points, existing.points),
                                    threshold)
         IN  SelectSeq(existingStrokes, Hit)

\* Variant: the overlaps are reported as confirmed whatever window.confirm says.
checkStrokeOverlapAndConfirm_AlwaysMerge(stroke, existingStrokes, overlapThreshold, answer) ==
    LET overlappingStrokes == OverlappingStrokes(stroke, existingStrokes, overlapThreshold)
    IN  [i \in 1..Len(overlappingStrokes) |->
            [targetStroke |-> overlappingStrokes[i], shouldMerge |-> TRUE]]

\* checkStrokeOverlapAndConfirm: answer is what window.confirm returns when it
\* is asked.
checkStrokeOverlapAndConfirm(stroke, existingStrokes, overlapThreshold, answer) ==
    LET overlappingStrokes == OverlappingStrokes(stroke, existingStrokes, overlapThreshold)
    IN  [i \in 1..Len(overlappingStrokes) |->
            [targetStroke |-> overlappingStrokes[i], shouldMerge |-> answer]]

-----------------------------------------------------------------------------
(* Bounds and input sets *)

\* Pointer-down and pointer-move events per behaviour.
MaxEvents == 5

\* Pointer positions, as percentage coordinates.
Positions == {Pt(10, 10), Pt(20, 10), Pt(30, 10)}

\* Pointer positions around the continuation threshold: (10,12) is exactly 2
\* away from (10,10), (10,13) is 3 away from it and 1 away from (10,12).
DraftPositions == {Pt(10, 10), Pt(10, 12), Pt(10, 13)}

PREVIEW_COLOR == "#ffeb3b"

FINAL_COLOR == "#555555"

\* FreehandCanvas prop width = 12
StrokeWidth == 12

-----------------------------------------------------------------------------
(* PDFContext stroke store *)

\* setStrokes(prev => [...prev, newStroke])
addStroke(prev, strokeData, id) ==
    Append(prev, [id |-> id, pageNumber |-> strokeData.pageNumber,
                  points |-> strokeData.points, color |-> strokeData.color,
                  width |-> strokeData.width, isDraft |-> strokeData.isDraft])

\* setStrokes(prev => prev.map(s => s.id === stroke.id ? stroke : s))
updateStroke(prev, stroke) ==
    [i \in 1..Len(prev) |-> IF prev[i].id = stroke.id THEN stroke ELSE prev[i]]

\* setStrokes(prev => prev.filter(s => s.id !== id))
deleteStroke(prev, id) ==
    LET Keep(s) == s.id # id IN SelectSeq(prev, Keep)

\* Variant: the other overlapping strokes are left in the store.
deleteStrokes_KeepAll(prev, doomed) == prev

\* overlapResults.forEach(... deleteStroke(targetStroke.id)) for the strokes
\* other than the main one
RECURSIVE deleteStrokes(_, _)
deleteStrokes(prev, doomed) ==
    IF Len(doomed) = 0 THEN prev
    ELSE deleteStrokes(deleteStroke(prev, doomed[1].id), Tail(doomed))

-----------------------------------------------------------------------------
(* FreehandCanvas *)

\* The effect that installs the pointer handlers runs again whenever strokes,
\* pageNumber or the handlers' other dependencies change: the new closure
\* starts from its initial values.
FreshClosure ==
    /\ drawing' = FALSE
    /\ currentPoints' = <<>>
    /\ continuingDraft' = FALSE
    /\ draftStrokeId' = 0

Op(name, asked, answer) == [op |-> name, asked |-> asked, shouldMerge |-> answer]

\* The eraser branch of pointerDown: the first stroke of the page with a point
\* closer than 2 to the pointer, as an index into strokes (0 if none).
EraseTarget(norm) ==
    LET threshold == 2
        Near(s) == \E k \in 1..Len(s.points) : Hypot2(s.points[k], norm) < Sq(threshold)
        hits == {i \in 1..Len(strokes) :
                    strokes[i].pageNumber = pageNumber /\ Near(strokes[i])}
    IN  IF hits = {} THEN 0 ELSE CHOOSE i \in hits : \A j \in hits : i <= j

Erase(norm) ==
    \E t \in {EraseTarget(norm)} :
        IF t = 0
        THEN UNCHANGED <<strokes, closureVars>>
        ELSE /\ strokes' = deleteStroke(strokes, strokes[t].id)
             /\ FreshClosure

\* strokes.find(st => st.pageNumber === pageNumber && st.isDraft), as an index
PageDraftStroke ==
    LET drafts == {i \in 1..Len(strokes) :
                      strokes[i].pageNumber = pageNumber /\ strokes[i].isDraft}
    IN  IF drafts = {} THEN 0 ELSE CHOOSE i \in drafts : \A j \in drafts : i <= j

\* Variant: a draft is continued from up to 3 away.
pointerDown_WiderContinue(norm, eraseActive) ==
    /\ mounted = "merge"
    /\ events < MaxEvents
    /\ events' = events + 1
    /\ lastOp' = Op("other", FALSE, FALSE)
    /\ UNCHANGED <<nextId, pageNumber, mounted, exportVars, viewerVars>>
    /\ IF eraseActive THEN Erase(norm)
       ELSE \E d \in {PageDraftStroke} :
                IF d # 0
                THEN LET lastPoint == strokes[d].points[Len(strokes[d].points)]
                         continueThreshold == 3
                     IN  IF Hypot2(lastPoint, norm) <= Sq(continueThreshold)
                         THEN /\ drawing' = TRUE
                              /\ continuingDraft' = TRUE
                              /\ draftStrokeId' = strokes[d].id
                              /\ currentPoints' = strokes[d].points
                              /\ UNCHANGED strokes
                         ELSE UNCHANGED <<strokes, closureVars>>
                ELSE /\ drawing' = TRUE
                     /\ continuingDraft' = FALSE
                     /\ draftStrokeId' = 0
                     /\ currentPoints' = <<norm>>
                     /\ UNCHANGED strokes

pointerDown(norm, eraseActive) ==
    /\ mounted = "merge"
    /\ events < MaxEvents
    /\ events' = events + 1
    /\ lastOp' = Op("other", FALSE, FALSE)
    /\ UNCHANGED <<nextId, pageNumber, mounted, exportVars, viewerVars>>
    /\ IF eraseActive THEN Erase(norm)
       ELSE \E d \in {PageDraftStroke} :
                IF d # 0
                THEN LET lastPoint == strokes[d].points[Len(strokes[d].points)]
                         continueThreshold == 2
                     IN  IF Hypot2(lastPoint, norm) <= Sq(continueThreshold)
                         THEN /\ drawing' = TRUE
                              /\ continuingDraft' = TRUE
                              /\ draftStrokeId' = strokes[d].id
                              /\ currentPoints' = strokes[d].points
                              /\ UNCHANGED strokes
                         ELSE UNCHANGED <<strokes, closureVars>>
                ELSE /\ drawing' = TRUE
                     /\ continuingDraft' = FALSE
                     /\ draftStrokeId' = 0
                     /\ currentPoints' = <<norm>>
                     /\ UNCHANGED strokes

\* The strokes array an export in progress was called with holds the very
\* stroke objects of the store: a push onto the points array of stroke id is
\* seen through it.  Without such an export the job is left alone.
SharedWithExport(id, pts) ==
    IF job.shape = "snapshot"
    THEN [job EXCEPT !.strokes =
             [i \in 1..Len(job.strokes) |->
                 IF job.strokes[i].id = id
                 THEN [job.strokes[i] EXCEPT !.points = pts]
                 ELSE job.strokes[i]]]
    ELSE job

\* currentPoints.push(...): when the gesture continues a draft, currentPoints is
\* the points array of the stored draft stroke, which grows with it.
pointerMove(norm) ==
    /\ mounted = "merge"
    /\ drawing
    /\ events < MaxEvents
    /\ events' = events + 1
    /\ currentPoints' = Append(currentPoints, norm)
    /\ strokes' = IF continuingDraft
                   THEN [i \in 1..Len(strokes) |->
                            IF strokes[i].id = draftStrokeId
                            THEN [strokes[i] EXCEPT !.points = Append(currentPoints, norm)]
                            ELSE strokes[i]]
                   ELSE strokes
    /\ job' = IF continuingDraft
               THEN SharedWithExport(draftStrokeId, Append(currentPoints, norm))
               ELSE job
    /\ lastOp' = Op("other", FALSE, FALSE)
    /\ UNCHANGED <<nextId, pageNumber, mounted, drawing, continuingDraft,
                   draftStrokeId, out, viewerVars>>

\* The first non-marker point of pts (its index, 0 if none)
FirstReal(pts) ==
    LET real == {k \in 1..Len(pts) : pts[k].x # Null /\ pts[k].y # Null}
    IN  IF real = {} THEN 0 ELSE CHOOSE k \in real : \A j \in real : k <= j

LastReal(pts) ==
    LET real == {k \in 1..Len(pts) : pts[k].x # Null /\ pts[k].y # Null}
    IN  IF real = {} THEN 0 ELSE CHOOSE k \in real : \A j \in real : k >= j

\* Variant: a pen-lift marker goes between every two parts, however close.
RECURSIVE MergePoints_AlwaysLift(_, _, _)
MergePoints_AlwaysLift(strokesToMerge, i, mergedPoints) ==
    IF i > Len(strokesToMerge) THEN mergedPoints
    ELSE IF Len(mergedPoints) = 0
    THEN MergePoints_AlwaysLift(strokesToMerge, i + 1, strokesToMerge[i])
    ELSE MergePoints_AlwaysLift(strokesToMerge, i + 1,
                                mergedPoints \o <<LiftMarker>> \o strokesToMerge[i])

\* The loop of pointerUp that joins the simplified paths.
RECURSIVE MergePoints(_, _, _)
MergePoints(strokesToMerge, i, mergedPoints) ==
    IF i > Len(strokesToMerge) THEN mergedPoints
    ELSE LET pts == strokesToMerge[i]
             connectThreshold == 1
             l == LastReal(mergedPoints)
             f == FirstReal(pts)
             far == IF l # 0 /\ f # 0
                    THEN Hypot2(mergedPoints[l], pts[f]) > Sq(connectThreshold)
                    ELSE TRUE
         IN  IF Len(mergedPoints) = 0
             THEN MergePoints(strokesToMerge, i + 1, pts)
             ELSE IF far
             THEN MergePoints(strokesToMerge, i + 1, mergedPoints \o <<LiftMarker>> \o pts)
             ELSE MergePoints(strokesToMerge, i + 1, mergedPoints \o pts)

\* Variant: the newly drawn points are left out of the merge.
MergedPointsOf_DropsNew(overlaps, current) ==
    LET mainStroke == overlaps[1].targetStroke
        NotMain(o) == o.targetStroke.id # mainStroke.id
        others == SelectSeq(overlaps, NotMain)
        paths == <<mainStroke.points>>
                    \o [k \in 1..Len(others) |-> others[k].targetStroke.points]
        strokesToMerge == [k \in 1..Len(paths) |-> simplifyPath(paths[k], 1)]
    IN  MergePoints(strokesToMerge, 1, <<>>)

\* mainStroke.points, the other overlapping strokes' points and currentPoints,
\* each simplified, then joined.
MergedPointsOf(overlaps, current) ==
    LET mainStroke == overlaps[1].targetStroke
        NotMain(o) == o.targetStroke.id # mainStroke.id
        others == SelectSeq(overlaps, NotMain)
        paths == <<mainStroke.points>>
                    \o [k \in 1..Len(others) |-> others[k].targetStroke.points]
                    \o <<current>>
        strokesToMerge == [k \in 1..Len(paths) |-> simplifyPath(paths[k], 1)]
    IN  MergePoints(strokesToMerge, 1, <<>>)

pointerUp(answer) ==
    /\ mounted = "merge"
    /\ drawing
    /\ UNCHANGED <<pageNumber, mounted, events, exportVars, viewerVars>>
    /\ \E overlaps \in {checkStrokeOverlapAndConfirm(
                            [pageNumber |-> pageNumber, points |-> currentPoints],
                            strokes, 1, answer)} :
           /\ lastOp' = Op("pointerUp", Len(overlaps) > 0, Len(overlaps) > 0 /\ answer)
           \* window.confirm is asked, and gives an answer, only for an overlap
           /\ (Len(overlaps) = 0 => answer = FALSE)
           /\ IF Len(overlaps) > 0 /\ overlaps[1].shouldMerge
              THEN LET mainStroke == overlaps[1].targetStroke
                       NotMain(o) == o.targetStroke.id # mainStroke.id
                       others == SelectSeq(overlaps, NotMain)
                       otherStrokes == [k \in 1..Len(others) |-> others[k].targetStroke]
                   IN  \E mergedPoints \in {MergedPointsOf(overlaps, currentPoints)} :
                       LET afterDelete == deleteStrokes(strokes, otherStrokes)
                           afterUpdate == updateStroke(afterDelete,
                                            [mainStroke EXCEPT !.points = mergedPoints,
                                                               !.color = FINAL_COLOR,
                                                               !.isDraft = FALSE])
                       IN  /\ strokes' = IF continuingDraft /\ draftStrokeId # 0
                                          THEN deleteStroke(afterUpdate, draftStrokeId)
                                          ELSE afterUpdate
                           /\ FreshClosure
                           /\ UNCHANGED nextId
              ELSE IF Len(currentPoints) > 1 /\ ~(continuingDraft /\ draftStrokeId # 0)
              THEN /\ strokes' = addStroke(strokes,
                                    [pageNumber |-> pageNumber, points |-> currentPoints,
                                     color |-> PREVIEW_COLOR, width |-> StrokeWidth,
                                     isDraft |-> TRUE], nextId + 1)
                   /\ nextId' = nextId + 1
                   /\ FreshClosure
              ELSE /\ drawing' = FALSE
                   /\ UNCHANGED <<strokes, nextId, currentPoints, continuingDraft,
                                  draftStrokeId>>

\* The handlers of the plain FreehandCanvas variant: no draft strokes and no
\* merging; every finished gesture of two or more points is stored as a
\* finalized stroke (addStroke without isDraft).
simplePointerDown(norm, eraseActive) ==
    /\ mounted = "simple"
    /\ events < MaxEvents
    /\ events' = events + 1
    /\ lastOp' = Op("other", FALSE, FALSE)
    /\ UNCHANGED <<nextId, pageNumber, mounted, exportVars, viewerVars>>
    /\ IF eraseActive THEN Erase(norm)
       ELSE /\ drawing' = TRUE
            /\ currentPoints' = <<norm>>
            /\ UNCHANGED <<strokes, continuingDraft, draftStrokeId>>

simplePointerMove(norm) ==
    /\ mounted = "simple"
    /\ drawing
    /\ events < MaxEvents
    /\ events' = events + 1
    /\ currentPoints' = Append(currentPoints, norm)
    /\ lastOp' = Op("other", FALSE, FALSE)
    /\ UNCHANGED <<strokes, nextId, pageNumber, mounted, drawing, continuingDraft,
                   draftStrokeId, exportVars, viewerVars>>

\* Variant: a gesture of a single point is stored too.
simplePointerUp_AnyLength ==
    /\ mounted = "simple"
    /\ drawing
    /\ lastOp' = Op("other", FALSE, FALSE)
    /\ UNCHANGED <<pageNumber, mounted, events, exportVars, viewerVars>>
    /\ IF Len(currentPoints) > 0
       THEN /\ strokes' = addStroke(strokes,
                             [pageNumber |-> pageNumber, points |-> currentPoints,
                              color |-> FINAL_COLOR, width |-> StrokeWidth,
                              isDraft |-> FALSE], nextId + 1)
            /\ nextId' = nextId + 1
            /\ FreshClosure
       ELSE /\ drawing' = FALSE
            /\ UNCHANGED <<strokes, nextId, currentPoints, continuingDraft,
                           draftStrokeId>>

simplePointerUp ==
    /\ mounted = "simple"
    /\ drawing
    /\ lastOp' = Op("other", FALSE, FALSE)
    /\ UNCHANGED <<pageNumber, mounted, events, exportVars, viewerVars>>
    /\ IF Len(currentPoints) > 1
       THEN /\ strokes' = addStroke(strokes,
                             [pageNumber |-> pageNumber, points |-> currentPoints,
                              color |-> FINAL_COLOR, width |-> StrokeWidth,
                              isDraft |-> FALSE], nextId + 1)
            /\ nextId' = nextId + 1
            /\ FreshClosure
       ELSE /\ drawing' = FALSE
            /\ UNCHANGED <<strokes, nextId, currentPoints, continuingDraft,
                           draftStrokeId>>

\* The repository holds the plain FreehandCanvas and the merging one; both
\* write to the same store.  The merging canvas replaces the plain one, and
\* the strokes the plain canvas stored stay in the store.
mountMergingCanvas ==
    /\ mounted = "simple"
    /\ mounted' = "merge"
    /\ FreshClosure
    /\ lastOp' = Op("other", FALSE, FALSE)
    /\ UNCHANGED <<strokes, nextId, pageNumber, events, exportVars, viewerVars>>

\* AnnotationPanel: the delete button of a stroke
handleDeleteStroke(i) ==
    /\ i \in 1..Len(strokes)
    /\ strokes' = deleteStroke(strokes, strokes[i].id)
    /\ FreshClosure
    /\ lastOp' = Op("other", FALSE, FALSE)
    /\ UNCHANGED <<nextId, pageNumber, mounted, events, exportVars, viewerVars>>

\* PDFContext.undoLastStroke(pageNumber): removes the last stroke of the page
undoLastStroke ==
    LET onPage == {i \in 1..Len(strokes) : strokes[i].pageNumber = pageNumber}
    IN  /\ onPage # {}
        /\ LET i == CHOOSE k \in onPage : \A j \in onPage : k >= j
           IN  strokes' = SubSeq(strokes, 1, i - 1) \o SubSeq(strokes, i + 1, Len(strokes))
        /\ FreshClosure
        /\ lastOp' = Op("other", FALSE, FALSE)
        /\ UNCHANGED <<nextId, pageNumber, mounted, events, exportVars, viewerVars>>

-----------------------------------------------------------------------------
(* Export: the drawing of one entity on its page *)

\* Percentage coordinates of the exported entity are the multiples of 25 up to
\* 25 * PctSteps.
PctSteps == 2

Pcts == {25 * i : i \in 0..PctSteps}

PageSizes == {600, 800}

\* page.getRotation().angle, including values outside {0, 90, 180, 270}
Rotations == {0, 90, 180, 270, -90, 45}

Scales10 == {10, 20}

\* Shapes of the exported stroke built from the entity's two corners P and Q
Shapes == {"line", "lifted", "two-parts"}

Jobs == [x : Pcts, y : Pcts, width : Pcts, height : Pcts,
         pageWidth : PageSizes, pageHeight : PageSizes,
         rotation : Rotations, scale10 : Scales10, shape : Shapes,
         note : BOOLEAN]

NoJob == [shape |-> "none"]

NoOut == [op |-> "none"]

JobPoints(j) ==
    LET P == Pt(j.x, j.y)
        Q == Pt(j.x + j.width, j.y + j.height)
    IN  IF j.shape = "line" THEN <<P, Q>>
        ELSE IF j.shape = "lifted" THEN <<P, LiftMarker, Q>>
        ELSE <<P, Q, LiftMarker, Q, P>>

\* getRotatedCoordinates applied to the two corners of the entity
transformPoints ==
    /\ out = NoOut
    /\ out' = [op |-> "getRotatedCoordinates",
               p |-> getRotatedCoordinates(job.x, job.y, job.pageWidth,
                                           job.pageHeight, job.rotation),
               q |-> getRotatedCoordinates(job.x + job.width, job.y + job.height,
                                           job.pageWidth, job.pageHeight, job.rotation)]
    /\ UNCHANGED <<job, canvasVars, viewerVars>>

\* downloadPDFWithPins: the callback of pagePins.forEach
drawPin ==
    /\ out = NoOut
    /\ out' = [op |-> "downloadPDFWithPins",
               at |-> PinDrawPoint(job, job.pageWidth, job.pageHeight,
                                   job.rotation, job.scale10)]
    /\ UNCHANGED <<job, canvasVars, viewerVars>>

\* downloadPDFWithHighlights: the callback of pageHighlights.forEach, for a
\* highlight with or without a note (job.note). Its one emission is
\* page.drawRectangle; h.note is not read.
drawHighlight ==
    /\ out = NoOut
    /\ out' = [op |-> "downloadPDFWithHighlights",
               rect |-> HighlightRect(job, job.pageWidth, job.pageHeight, job.rotation),
               emitted |-> {"rectangle"}]
    /\ UNCHANGED <<job, canvasVars, viewerVars>>

\* downloadPDFWithAnnotations: the stroke lines of the callback of pageStrokes.forEach
drawStroke ==
    /\ out = NoOut
    /\ out' = [op |-> "downloadPDFWithAnnotations",
               lines |-> AnnotationLines(JobPoints(job), job.pageWidth,
                                         job.pageHeight, job.rotation)]
    /\ UNCHANGED <<job, canvasVars, viewerVars>>

\* donwloadKeyPointForStroke: the stroke lines of the callback of pageStrokes.forEach
drawKeyPointStroke ==
    /\ out = NoOut
    /\ out' = [op |-> "donwloadKeyPointForStroke",
               lines |-> KeyPointLines(JobPoints(job), job.pageWidth,
                                       job.pageHeight, job.rotation)]
    /\ UNCHANGED <<job, canvasVars, viewerVars>>

-----------------------------------------------------------------------------
(* The overlap resolver as a function of its arguments *)

OverlapCoords == {0, 2, 4}

OverlapPoints == {Pt(x, y) : x \in OverlapCoords, y \in OverlapCoords}

\* overlapThreshold, negative values included
Thresholds == {-1, 0, 1, 3}

\* Point sequences of up to two points of S
Polylines(S) == {<<>>} \cup {<<p>> : p \in S} \cup {<<p, q>> : p \in S, q \in S}

\* Stored point sequences: plain ones, and two points with a pen-lift marker
\* between them as a merge leaves them.
StoredPolylines ==
    Polylines(OverlapPoints)
        \cup {<<p, LiftMarker, q>> : p \in OverlapPoints, q \in OverlapPoints}

OverlapJobs == [shape : {"overlap"}, points : Polylines(OverlapPoints),
                existingPoints : StoredPolylines, existingPage : {1, 2},
                existingDraft : BOOLEAN]

\* The stroke argument of checkStrokeOverlapAndConfirm
CandidateOf(j) == [pageNumber |-> 1, points |-> j.points]

\* The existingStrokes argument: the stroke the job describes, followed by a
\* finalized stroke along the lower edge of the grid.
ExistingOf(j) ==
    <<[id |-> 1, pageNumber |-> j.existingPage, points |-> j.existingPoints,
       color |-> FINAL_COLOR, width |-> StrokeWidth, isDraft |-> j.existingDraft],
      [id |-> 2, pageNumber |-> 1, points |-> <<Pt(0, 0), Pt(4, 0)>>,
       color |-> FINAL_COLOR, width |-> StrokeWidth, isDraft |-> FALSE]>>

\* checkStrokeOverlapAndConfirm applied to the job with each threshold
findOverlaps(answer) ==
    /\ out = NoOut
    /\ job.shape = "overlap"
    /\ out' = [op |-> "checkStrokeOverlapAndConfirm",
               answer |-> answer,
               results |-> [t \in Thresholds |->
                              checkStrokeOverlapAndConfirm(CandidateOf(job),
                                                           ExistingOf(job), t, answer)]]
    /\ UNCHANGED <<job, canvasVars, viewerVars>>

-----------------------------------------------------------------------------
(* The path simplifier as a function of its arguments *)

\* Longest point sequence given to simplifyPath
MaxPathLen == 4

\* Coordinates in tenths of a unit: (0,0), (1,0.1), (2,-0.1), (3,0) and two
\* points far off the line through them.
SimplifyPoints == {Pt(0, 0), Pt(10, 1), Pt(20, -1), Pt(30, 0), Pt(10, 15), Pt(20, -15)}

\* tolerance, in tenths of a unit: 0, 0.1 and 1
Tolerances == {0, 1, 10}

SimplifyJobs == [shape : {"path"},
                 points : UNION {[1..n -> SimplifyPoints] : n \in 0..MaxPathLen},
                 tolerance : Tolerances]

\* simplifyPath applied to the job, and again to its own result
simplify ==
    /\ out = NoOut
    /\ job.shape = "path"
    /\ \E result \in {simplifyPath(job.points, job.tolerance)} :
           out' = [op |-> "simplifyPath",
                   result |-> result,
                   again |-> simplifyPath(result, job.tolerance)]
    /\ UNCHANGED <<job, canvasVars, viewerVars>>

-----------------------------------------------------------------------------
(* One run of an export function: fetch, parse, draw every entity, serialize, *)
(* offer the file                                                             *)

\* Entities (pins, highlights or strokes) handed to one export
MaxEntities == 3

ExportFns == {"downloadPDFWithHighlights", "downloadPDFWithAnnotations",
              "downloadPDFWithPins", "donwloadKeyPointForStroke"}

\* The two exports of strokes, which load the decoration icon before drawing
StrokeExports == {"downloadPDFWithAnnotations", "donwloadKeyPointForStroke"}

\* What happens to the decoration icon: fetched and decoded, the fetch of the
\* SVG rejects, or the image never fires onload (or toBlob yields null)
IconOutcomes == {"ok", "fetchFails", "decodeFails"}

\* For each entity whether drawing it throws; whether fetch(pdfUrl),
\* PDFDocument.load and save() succeed; the fate of the icon.
RunJobs == [shape : {"export"}, fn : ExportFns,
            entities : [1..MaxEntities -> {"ok", "throws"}],
            fetchOk : BOOLEAN, parseOk : BOOLEAN, saveOk : BOOLEAN,
            icon : IconOutcomes]

Running(pc, next, drawn) ==
    [op |-> "export", pc |-> pc, next |-> next, drawn |-> drawn,
     offered |-> FALSE, outcome |-> "pending"]

\* The catch block around the whole function body: donwloadKeyPointForStroke
\* logs the error and returns, the other three log it and throw it again.
Caught(fn, drawn) ==
    [op |-> "export", pc |-> "done", next |-> 0, drawn |-> drawn, offered |-> FALSE,
     outcome |-> IF fn = "donwloadKeyPointForStroke" THEN "resolved" ELSE "rejected"]

\* await fetch(pdfUrl).then(res => res.arrayBuffer())
exportFetch ==
    /\ out = NoOut
    /\ job.shape = "export"
    /\ out' = IF job.fetchOk THEN Running("load", 0, {}) ELSE Caught(job.fn, {})
    /\ UNCHANGED <<job, canvasVars, viewerVars>>

\* await PDFDocument.load(pdfBytes)
exportLoad ==
    /\ out.op = "export"
    /\ out.pc = "load"
    /\ out' = IF ~job.parseOk THEN Caught(job.fn, {})
               ELSE IF job.fn \in StrokeExports THEN Running("iconFetch", 0, {})
               ELSE Running("draw", 1, {})
    /\ UNCHANGED <<job, canvasVars, viewerVars>>

\* svgUrlToPngBytes, first half: await fetch(svgUrl).then(res => res.text());
\* a rejection leaves through the export's outer catch.
exportIconFetch ==
    /\ out.op = "export"
    /\ out.pc = "iconFetch"
    /\ out' = IF job.icon = "fetchFails" THEN Caught(job.fn, {})
               ELSE Running("iconDecode", 0, {})
    /\ UNCHANGED <<job, canvasVars, viewerVars>>

\* svgUrlToPngBytes, second half: the promise is resolved only from img.onload
\* through toBlob and reader.onloadend; there is no onerror and no reject, so
\* when the image does not decode nothing ever continues the export.
exportIconDecode ==
    /\ out.op = "export"
    /\ out.pc = "iconDecode"
    /\ job.icon = "ok"
    /\ out' = Running("draw", 1, {})
    /\ UNCHANGED <<job, canvasVars, viewerVars>>

\* The callback of forEach for the next entity: only downloadPDFWithPins wraps
\* it in a try/catch of its own.
exportDraw ==
    /\ out.op = "export"
    /\ out.pc = "draw"
    /\ out.next <= MaxEntities
    /\ out' = IF job.entities[out.next] = "ok"
               THEN Running("draw", out.next + 1, out.drawn \cup {out.next})
               ELSE IF job.fn = "downloadPDFWithPins"
               THEN Running("draw", out.next + 1, out.drawn)
               ELSE Caught(job.fn, out.drawn)
    /\ UNCHANGED <<job, canvasVars, viewerVars>>

\* await save(), new Blob, saveAs(blob, filename)
exportSave ==
    /\ out.op = "export"
    /\ out.pc = "draw"
    /\ out.next > MaxEntities
    /\ out' = IF job.saveOk
               THEN [op |-> "export", pc |-> "done", next |-> out.next,
                     drawn |-> out.drawn, offered |-> TRUE, outcome |-> "resolved"]
               ELSE Caught(job.fn, out.drawn)
    /\ UNCHANGED <<job, canvasVars, viewerVars>>

-----------------------------------------------------------------------------
(* An export of the strokes while the user keeps drawing *)

\* The awaits of downloadPDFWithAnnotations before it draws: fetch, load,
\* svgUrlToPngBytes, embedPng
Awaits == 4

\* App.handleExportPDFWithStrokes: downloadPDFWithAnnotations is called with
\* the strokes array of the current render and runs up to its first await.
\* atInvocation keeps the value the store held at the call.
handleExportPDFWithStrokes ==
    /\ job = NoJob
    /\ Len(strokes) # 0
    /\ job' = [shape |-> "snapshot", strokes |-> strokes, atInvocation |-> strokes]
    /\ out' = [op |-> "awaiting", resumed |-> 0]
    /\ UNCHANGED <<canvasVars, viewerVars>>

\* One of the awaited promises resolves and the export runs on to the next
exportResume ==
    /\ out.op = "awaiting"
    /\ out.resumed < Awaits - 1
    /\ out' = [out EXCEPT !.resumed = out.resumed + 1]
    /\ UNCHANGED <<job, canvasVars, viewerVars>>

\* The last await resolves: the loops over strokesByPage read s.points of every
\* stroke of the array the export was called with and draw them.
exportRenderStrokes ==
    /\ out.op = "awaiting"
    /\ out.resumed = Awaits - 1
    /\ out' = [op |-> "downloadPDFWithAnnotations",
               rendered |-> [i \in 1..Len(job.strokes) |-> job.strokes[i].points]]
    /\ UNCHANGED <<job, canvasVars, viewerVars>>

-----------------------------------------------------------------------------
(* PDFViewer: tool modes, highlight gestures and pins *)

NoPoint == [none |-> TRUE]

NoGesture == [kind |-> "none"]

\* The viewer right after it is mounted: empty stores, no tool active.
InitViewer ==
    /\ highlights = <<>>
    /\ selectedHighlight = 0
    /\ isSelecting = FALSE
    /\ selectionStart = NoPoint
    /\ marker = NoGesture
    /\ pins = <<>>
    /\ selectedPin = 0
    /\ pinDetail = NoPoint
    /\ isOpen = FALSE
    /\ isHighlightingMode = FALSE
    /\ isPinningMode = FALSE
    /\ isMarkerMode = FALSE
    /\ isEraserMode = FALSE
    /\ isDragMode = FALSE
    /\ markerMoves = 0

Min2(a, b) == IF a <= b THEN a ELSE b

Max2(a, b) == IF a >= b THEN a ELSE b

Abs(a) == IF a < 0 THEN -a ELSE a

\* xPercent >= 0 && xPercent <= 100 && yPercent >= 0 && yPercent <= 100
OnPage(p) == p.x >= 0 /\ p.x <= 100 /\ p.y >= 0 /\ p.y <= 100

\* Highlights the store may hold
MaxHighlights == 1

\* Mouse-move events of drag and resize gestures
MaxMarkerMoves == 1

\* Pointer places in percent of the page, two of them off the page
HighlightCoords == {-10, 40, 100}

\* Pointer displacements of a drag or resize, in percent of the page
Deltas == {-60, 60}

\* direction.includes(side) for the eight resize handles
Directions == {{"top", "left"}, {"top", "right"}, {"bottom", "left"},
               {"bottom", "right"}, {"top"}, {"bottom"}, {"left"}, {"right"}}

\* setHighlights(prev => [...prev, newHighlight])
addHighlight(prev, highlightData, id) ==
    Append(prev, [id |-> id, x |-> highlightData.x, y |-> highlightData.y,
                  width |-> highlightData.width, height |-> highlightData.height])

\* setHighlights(prev => prev.map(h => h.id === id ? {...h, ...updates} : h));
\* updates carries x and y, or x, y, width and height.
updateHighlight(prev, id, updates) ==
    [i \in 1..Len(prev) |->
        IF prev[i].id = id
        THEN [f \in DOMAIN prev[i] |->
                 IF f \in DOMAIN updates THEN updates[f] ELSE prev[i][f]]
        ELSE prev[i]]

\* PDFViewer.handleMouseDown with handleHighlightMouseDown: in pan mode the
\* press starts panning and returns before the highlighting branch.
handleHighlightMouseDown(p) ==
    /\ ~isDragMode
    /\ isHighlightingMode
    /\ IF OnPage(p)
       THEN /\ selectionStart' = p
            /\ isSelecting' = TRUE
            /\ selectedHighlight' = 0
       ELSE UNCHANGED <<selectionStart, isSelecting, selectedHighlight>>
    /\ UNCHANGED <<highlights, marker, pinVars, modeVars, markerMoves>>
    /\ UNCHANGED <<exportVars, canvasVars>>

\* PDFViewer.handleMouseUp with handleHighlightMouseUp.  Percentages are
\* integers here, so height > 0.5 is height >= 1.
handleHighlightMouseUp(p) ==
    /\ isHighlightingMode
    /\ isSelecting
    /\ selectionStart # NoPoint
    /\ LET startX == Min2(selectionStart.x, p.x)
           startY == Min2(selectionStart.y, p.y)
           width == Abs(p.x - selectionStart.x)
           height == Abs(p.y - selectionStart.y)
       IN  IF OnPage(p) /\ width > 1 /\ height >= 1
           THEN /\ Len(highlights) < MaxHighlights
                /\ highlights' = addHighlight(highlights,
                                    [x |-> startX, y |-> startY,
                                     width |-> width, height |-> height],
                                    Len(highlights) + 1)
           ELSE UNCHANGED highlights
    /\ isSelecting' = FALSE
    /\ selectionStart' = NoPoint
    /\ isHighlightingMode' = FALSE
    /\ UNCHANGED <<selectedHighlight, marker, pinVars, markerMoves>>
    /\ UNCHANGED <<isPinningMode, isMarkerMode, isEraserMode, isDragMode>>
    /\ UNCHANGED <<exportVars, canvasVars>>

\* A highlight is selected from the annotation panel.
selectHighlight(i) ==
    /\ selectedHighlight' = highlights[i].id
    /\ UNCHANGED <<highlights, isSelecting, selectionStart, marker>>
    /\ UNCHANGED <<pinVars, modeVars, markerMoves>>
    /\ UNCHANGED <<exportVars, canvasVars>>

\* HighlightMarker.handleMouseDown: the handlers it registers close over the
\* highlight as it is rendered now.
handleMouseDown(i) ==
    /\ marker = NoGesture
    /\ selectedHighlight = highlights[i].id
    /\ marker' = [kind |-> "drag", highlight |-> highlights[i]]
    /\ UNCHANGED <<highlights, selectedHighlight, isSelecting, selectionStart>>
    /\ UNCHANGED <<pinVars, modeVars, markerMoves>>
    /\ UNCHANGED <<exportVars, canvasVars>>

\* HighlightMarker.handleResizeMouseDown
handleResizeMouseDown(i, direction) ==
    /\ marker = NoGesture
    /\ selectedHighlight = highlights[i].id
    /\ marker' = [kind |-> "resize", highlight |-> highlights[i],
                  direction |-> direction]
    /\ UNCHANGED <<highlights, selectedHighlight, isSelecting, selectionStart>>
    /\ UNCHANGED <<pinVars, modeVars, markerMoves>>
    /\ UNCHANGED <<exportVars, canvasVars>>

\* The update handleMouseMove of a drag sends: the new corner, clamped to
\* [0, 100 - size].
DragUpdate(highlight, deltaX, deltaY) ==
    LET startLeft == highlight.x
        startTop == highlight.y
    IN  [x |-> Max2(0, Min2(100 - highlight.width, startLeft + deltaX)),
         y |-> Max2(0, Min2(100 - highlight.height, startTop + deltaY))]

\* The update handleMouseMove of a resize sends
ResizeUpdate(highlight, direction, deltaX, deltaY) ==
    LET startWidth == highlight.width
        startHeight == highlight.height
        startLeft == highlight.x
        startTop == highlight.y
        widthChange == -deltaX
        heightChange == -deltaY
        newWidth == IF "left" \in direction THEN Max2(5, startWidth + widthChange)
                    ELSE IF "right" \in direction
                    THEN Max2(5, Min2(100 - startLeft, startWidth + deltaX))
                    ELSE startWidth
        newX == IF "left" \in direction THEN Max2(0, startLeft - widthChange)
                ELSE startLeft
        newHeight == IF "top" \in direction THEN Max2(3, startHeight + heightChange)
                     ELSE IF "bottom" \in direction
                     THEN Max2(3, Min2(100 - startTop, startHeight + deltaY))
                     ELSE startHeight
        newY == IF "top" \in direction THEN Max2(0, startTop - heightChange)
                ELSE startTop
    IN  [x |-> newX, y |-> newY, width |-> newWidth, height |-> newHeight]

\* handleMouseMove of the gesture in progress, listening on the document
handleMouseMove(deltaX, deltaY) ==
    /\ marker # NoGesture
    /\ markerMoves < MaxMarkerMoves
    /\ markerMoves' = markerMoves + 1
    /\ highlights' = updateHighlight(highlights, marker.highlight.id,
                         IF marker.kind = "drag"
                         THEN DragUpdate(marker.highlight, deltaX, deltaY)
                         ELSE ResizeUpdate(marker.highlight, marker.direction,
                                           deltaX, deltaY))
    /\ UNCHANGED <<selectedHighlight, isSelecting, selectionStart, marker>>
    /\ UNCHANGED <<pinVars, modeVars>>
    /\ UNCHANGED <<exportVars, canvasVars>>

\* handleMouseUp of the gesture in progress: the listeners are removed
handleMouseUp ==
    /\ marker # NoGesture
    /\ marker' = NoGesture
    /\ UNCHANGED <<highlights, selectedHighlight, isSelecting, selectionStart>>
    /\ UNCHANGED <<pinVars, modeVars, markerMoves>>
    /\ UNCHANGED <<exportVars, canvasVars>>

\* Pins the store may hold
MaxPins == 1

\* Pointer places in percent of the page, two of them off the page
PinCoords == {-10, 0, 100, 110}

\* What the user types into the title field
Titles == {"A", "B"}

\* setPins(prev => [...prev, newPin])
addPin(prev, pinData, id) ==
    Append(prev, [id |-> id, pageNumber |-> pinData.pageNumber,
                  x |-> pinData.x, y |-> pinData.y, title |-> pinData.title])

\* setPins(prev => prev.map(pin => pin.id === id ? {...pin, ...updates} : pin))
updatePin(prev, id, updates) ==
    [i \in 1..Len(prev) |->
        IF prev[i].id = id
        THEN [f \in DOMAIN prev[i] |->
                 IF f \in DOMAIN updates THEN updates[f] ELSE prev[i][f]]
        ELSE prev[i]]

\* PDFViewer.handlePageClick: a click on the page while the pin tool is active
handlePageClick(p) ==
    /\ isPinningMode
    /\ IF OnPage(p)
       THEN /\ pinDetail' = [pageNumber |-> pageNumber, x |-> p.x, y |-> p.y]
            /\ selectedPin' = 0
            /\ isOpen' = TRUE
            /\ isPinningMode' = FALSE
       ELSE UNCHANGED <<pinDetail, selectedPin, isOpen, isPinningMode>>
    /\ UNCHANGED <<pins, highlightVars, markerMoves>>
    /\ UNCHANGED <<isHighlightingMode, isMarkerMode, isEraserMode, isDragMode>>
    /\ UNCHANGED <<exportVars, canvasVars>>

\* DialogModel.handleAddPin: Submit in the pin dialog, then onClose()
handleAddPin(title) ==
    /\ isOpen
    /\ IF selectedPin # 0
       THEN /\ pins' = updatePin(pins, selectedPin, [title |-> title])
            /\ selectedPin' = 0
       ELSE /\ Len(pins) < MaxPins
            /\ pins' = addPin(pins,
                          [pageNumber |-> IF pinDetail # NoPoint
                                          THEN pinDetail.pageNumber ELSE 0,
                           x |-> IF pinDetail # NoPoint THEN pinDetail.x ELSE 0,
                           y |-> IF pinDetail # NoPoint THEN pinDetail.y ELSE 0,
                           title |-> title],
                          Len(pins) + 1)
            /\ UNCHANGED selectedPin
    /\ isOpen' = FALSE
    /\ UNCHANGED <<pinDetail, highlightVars, modeVars, markerMoves>>
    /\ UNCHANGED <<exportVars, canvasVars>>

\* The dialog's onHide: onClose(); setPinDetail(null)
hideDialog ==
    /\ isOpen
    /\ isOpen' = FALSE
    /\ pinDetail' = NoPoint
    /\ UNCHANGED <<pins, selectedPin, highlightVars, modeVars, markerMoves>>
    /\ UNCHANGED <<exportVars, canvasVars>>

\* PinMarker onClick: setSelectedPin(pin.id)
selectPin(i) ==
    /\ selectedPin' = pins[i].id
    /\ UNCHANGED <<pins, pinDetail, isOpen, highlightVars, modeVars, markerMoves>>
    /\ UNCHANGED <<exportVars, canvasVars>>

\* AnnotationPanel.handleSave: the edited fields of the selected pin
handleSave(title) ==
    /\ selectedPin # 0
    /\ pins' = updatePin(pins, selectedPin, [title |-> title])
    /\ UNCHANGED <<selectedPin, pinDetail, isOpen, highlightVars, modeVars, markerMoves>>
    /\ UNCHANGED <<exportVars, canvasVars>>

\* Variant: the dragged position is stored as it comes.
PinDragUpdate_NoClamp(p) == [x |-> p.x, y |-> p.y]

\* The update PinMarker.handleDrag sends: the pointer place clamped to [0, 100]
PinDragUpdate(p) ==
    [x |-> Max2(0, Min2(100, p.x)), y |-> Max2(0, Min2(100, p.y))]

\* PinMarker.handleDrag; a drag event without client coordinates is ignored.
handleDrag(i, valid, p) ==
    /\ pins' = IF valid THEN updatePin(pins, pins[i].id, PinDragUpdate(p)) ELSE pins
    /\ UNCHANGED <<selectedPin, pinDetail, isOpen, highlightVars, modeVars, markerMoves>>
    /\ UNCHANGED <<exportVars, canvasVars>>

\* The five floating tool buttons.  Each onClick toggles its own mode and
\* switches off exactly the modes its handler names.
clickHighlightTool ==
    /\ isHighlightingMode' = ~isHighlightingMode
    /\ isPinningMode' = FALSE
    /\ isMarkerMode' = FALSE
    /\ selectedHighlight' = 0
    /\ selectedPin' = 0
    /\ UNCHANGED <<isEraserMode, isDragMode>>
    /\ UNCHANGED <<highlights, isSelecting, selectionStart, marker>>
    /\ UNCHANGED <<pins, pinDetail, isOpen, markerMoves>>
    /\ UNCHANGED <<exportVars, canvasVars>>

clickPinTool ==
    /\ isPinningMode' = ~isPinningMode
    /\ isHighlightingMode' = FALSE
    /\ isMarkerMode' = FALSE
    /\ selectedPin' = 0
    /\ selectedHighlight' = 0
    /\ UNCHANGED <<isEraserMode, isDragMode>>
    /\ UNCHANGED <<highlights, isSelecting, selectionStart, marker>>
    /\ UNCHANGED <<pins, pinDetail, isOpen, markerMoves>>
    /\ UNCHANGED <<exportVars, canvasVars>>

clickMarkerTool ==
    /\ isMarkerMode' = ~isMarkerMode
    /\ isPinningMode' = FALSE
    /\ isHighlightingMode' = FALSE
    /\ selectedPin' = 0
    /\ selectedHighlight' = 0
    /\ UNCHANGED <<isEraserMode, isDragMode>>
    /\ UNCHANGED <<highlights, isSelecting, selectionStart, marker>>
    /\ UNCHANGED <<pins, pinDetail, isOpen, markerMoves>>
    /\ UNCHANGED <<exportVars, canvasVars>>

clickEraserTool ==
    /\ isEraserMode' = ~isEraserMode
    /\ isMarkerMode' = FALSE
    /\ isPinningMode' = FALSE
    /\ isHighlightingMode' = FALSE
    /\ UNCHANGED isDragMode
    /\ UNCHANGED <<highlightVars, pinVars, markerMoves>>
    /\ UNCHANGED <<exportVars, canvasVars>>

clickPanTool ==
    /\ isDragMode' = ~isDragMode
    /\ isPinningMode' = FALSE
    /\ isHighlightingMode' = FALSE
    /\ isMarkerMode' = FALSE
    /\ isEraserMode' = FALSE
    /\ UNCHANGED <<highlightVars, pinVars, markerMoves>>
    /\ UNCHANGED <<exportVars, canvasVars>>

-----------------------------------------------------------------------------
(* Specifications *)

InitCanvas ==
    /\ strokes = <<>>
    /\ nextId = 0
    /\ pageNumber = 1
    /\ mounted = "simple"
    /\ drawing = FALSE
    /\ currentPoints = <<>>
    /\ continuingDraft = FALSE
    /\ draftStrokeId = 0
    /\ events = 0
    /\ lastOp = Op("none", FALSE, FALSE)

Init ==
    /\ InitCanvas
    /\ job = NoJob
    /\ out = NoOut
    /\ InitViewer

Next ==
    \/ \E norm \in Positions, eraseActive \in BOOLEAN : pointerDown(norm, eraseActive)
    \/ \E norm \in Positions : pointerMove(norm)
    \/ \E answer \in BOOLEAN : pointerUp(answer)
    \/ \E norm \in Positions, eraseActive \in BOOLEAN : simplePointerDown(norm, eraseActive)
    \/ \E norm \in Positions : simplePointerMove(norm)
    \/ simplePointerUp
    \/ mountMergingCanvas
    \/ \E i \in 1..Len(strokes) : handleDeleteStroke(i)
    \/ undoLastStroke

Spec == Init /\ [][Next]_vars

InitExport ==
    /\ InitCanvas
    /\ job \in Jobs
    /\ out = NoOut
    /\ InitViewer

NextExport ==
    \/ transformPoints
    \/ drawPin
    \/ drawHighlight
    \/ drawStroke
    \/ drawKeyPointStroke

SpecExport == InitExport /\ [][NextExport]_vars

\* The merging FreehandCanvas alone, from an empty store: the user keeps
\* making gestures as long as one is possible.
InitMerge ==
    /\ strokes = <<>>
    /\ nextId = 0
    /\ pageNumber = 1
    /\ mounted = "merge"
    /\ drawing = FALSE
    /\ currentPoints = <<>>
    /\ continuingDraft = FALSE
    /\ draftStrokeId = 0
    /\ events = 0
    /\ lastOp = Op("none", FALSE, FALSE)
    /\ job = NoJob
    /\ out = NoOut
    /\ InitViewer

NextMerge ==
    \/ \E norm \in Positions, eraseActive \in BOOLEAN : pointerDown(norm, eraseActive)
    \/ \E norm \in Positions : pointerMove(norm)
    \/ \E answer \in BOOLEAN : pointerUp(answer)

SpecMerge == InitMerge /\ [][NextMerge]_vars /\ WF_vars(NextMerge)

\* The merging canvas and one export of the strokes, interleaved
NextSnapshot ==
    \/ \E norm \in Positions, eraseActive \in BOOLEAN : pointerDown(norm, eraseActive)
    \/ \E norm \in Positions : pointerMove(norm)
    \/ \E answer \in BOOLEAN : pointerUp(answer)
    \/ handleExportPDFWithStrokes
    \/ exportResume
    \/ exportRenderStrokes

SpecSnapshot == InitMerge /\ [][NextSnapshot]_vars

\* Both canvases with pointer positions around the continuation threshold
NextDraft ==
    \/ \E norm \in DraftPositions, eraseActive \in BOOLEAN : pointerDown(norm, eraseActive)
    \/ \E norm \in DraftPositions : pointerMove(norm)
    \/ \E answer \in BOOLEAN : pointerUp(answer)
    \/ \E norm \in DraftPositions, eraseActive \in BOOLEAN :
           simplePointerDown(norm, eraseActive)
    \/ \E norm \in DraftPositions : simplePointerMove(norm)
    \/ simplePointerUp
    \/ mountMergingCanvas

SpecDraft == Init /\ [][NextDraft]_vars

InitOverlap ==
    /\ InitCanvas
    /\ job \in OverlapJobs
    /\ out = NoOut
    /\ InitViewer

NextOverlap == \E answer \in BOOLEAN : findOverlaps(answer)

SpecOverlap == InitOverlap /\ [][NextOverlap]_vars

InitSimplify ==
    /\ InitCanvas
    /\ job \in SimplifyJobs
    /\ out = NoOut
    /\ InitViewer

NextSimplify == simplify

SpecSimplify == InitSimplify /\ [][NextSimplify]_vars

InitRun ==
    /\ InitCanvas
    /\ job \in RunJobs
    /\ out = NoOut
    /\ InitViewer

NextRun ==
    \/ exportFetch
    \/ exportLoad
    \/ exportIconFetch
    \/ exportIconDecode
    \/ exportDraw
    \/ exportSave

SpecRun == InitRun /\ [][NextRun]_vars

\* The highlight tool and the gestures on highlights
InitHighlights ==
    /\ InitCanvas
    /\ job = NoJob
    /\ out = NoOut
    /\ InitViewer

NextHighlights ==
    \/ clickHighlightTool
    \/ \E x \in HighlightCoords, y \in HighlightCoords : handleHighlightMouseDown(Pt(x, y))
    \/ \E x \in HighlightCoords, y \in HighlightCoords : handleHighlightMouseUp(Pt(x, y))
    \/ \E i \in 1..Len(highlights) : selectHighlight(i)
    \/ \E i \in 1..Len(highlights) : handleMouseDown(i)
    \/ \E i \in 1..Len(highlights), direction \in Directions :
           handleResizeMouseDown(i, direction)
    \/ \E deltaX \in Deltas, deltaY \in Deltas : handleMouseMove(deltaX, deltaY)
    \/ handleMouseUp

SpecHighlights == InitHighlights /\ [][NextHighlights]_vars

\* The tool buttons and the pins
InitViewerTools ==
    /\ InitCanvas
    /\ job = NoJob
    /\ out = NoOut
    /\ InitViewer

NextViewer ==
    \/ clickHighlightTool
    \/ clickPinTool
    \/ clickMarkerTool
    \/ clickEraserTool
    \/ clickPanTool
    \/ \E x \in PinCoords, y \in PinCoords : handlePageClick(Pt(x, y))
    \/ \E title \in Titles : handleAddPin(title)
    \/ hideDialog
    \/ \E i \in 1..Len(pins) : selectPin(i)
    \/ \E title \in Titles : handleSave(title)
    \/ \E i \in 1..Len(pins), valid \in BOOLEAN, x \in PinCoords, y \in PinCoords :
           handleDrag(i, valid, Pt(x, y))

SpecViewer == InitViewerTools /\ [][NextViewer]_vars

\* The network and the image callbacks make progress: a step of the export
\* that can happen does happen.
SpecRunFair == InitRun /\ [][NextRun]_vars /\ WF_vars(NextRun)

-----------------------------------------------------------------------------
(* Properties of the coordinate transform and of the export drawing,        *)
(* checked under SpecExport                                                 *)

ContractRotations == {0, 90, 180, 270}

\* The mapping of a percentage point as the specification tabulates it, in
\* hundredths of a point.
C1_Expected(px, py, W, H, r) ==
    CASE r = 0   -> Pt(px * W, 100 * H - py * H)
      [] r = 90  -> Pt(py * W, px * H)
      [] r = 180 -> Pt(100 * W - px * W, py * H)
      [] r = 270 -> Pt(100 * W - py * W, 100 * H - px * H)

\* C1: for every percentage point within 0..100, page size and rotation in
\* {0, 90, 180, 270}, getRotatedCoordinates returns the tabulated mapping; in
\* particular (50,50) on a 600x800 page with rotation 0 gives (300,400).
C1_TransformTable ==
    (out.op = "getRotatedCoordinates" /\ job.rotation \in ContractRotations) =>
        /\ out.p = C1_Expected(job.x, job.y, job.pageWidth, job.pageHeight, job.rotation)
        /\ (job.x + job.width <= 100 /\ job.y + job.height <= 100) =>
               out.q = C1_Expected(job.x + job.width, job.y + job.height,
                                   job.pageWidth, job.pageHeight, job.rotation)
        /\ (job.x = 50 /\ job.y = 50 /\ job.pageWidth = 600 /\ job.pageHeight = 800
               /\ job.rotation = 0) => out.p = Pt(30000, 40000)

C1_Witness ==
    /\ out.op = "getRotatedCoordinates"
    /\ job.x = 50 /\ job.y = 50 /\ job.pageWidth = 600 /\ job.pageHeight = 800
    /\ job.rotation = 0
    /\ out.p = Pt(30000, 40000)

\* C2: the point at which downloadPDFWithPins draws a pin equals
\* getRotatedCoordinates of the pin's (x,y), for every rotation in
\* {0, 90, 180, 270} and independently of the zoom scale.
C2_PinRoutesThroughTransform ==
    (out.op = "downloadPDFWithPins" /\ job.rotation \in ContractRotations) =>
        out.at = getRotatedCoordinates(job.x, job.y, job.pageWidth, job.pageHeight,
                                       job.rotation)

\* C3: no stroke export draws a line segment with an endpoint derived from a
\* pen-lift marker.
C3_NoLineAcrossLift ==
    (out.op \in {"downloadPDFWithAnnotations", "donwloadKeyPointForStroke"}) =>
        \A l \in out.lines :
            /\ ~IsMarker(JobPoints(job)[l.from])
            /\ ~IsMarker(JobPoints(job)[l.to])

\* C4: for every highlight with width, height >= 0 and every rotation in
\* {0, 90, 180, 270}, the rectangle drawn by downloadPDFWithHighlights is the
\* bounding box of the two transformed corners, so its width and height are
\* non-negative.
C4_HighlightBoundingBox ==
    (out.op = "downloadPDFWithHighlights" /\ job.rotation \in ContractRotations) =>
        LET a == getRotatedCoordinates(job.x, job.y, job.pageWidth, job.pageHeight,
                                       job.rotation)
            b == getRotatedCoordinates(job.x + job.width, job.y + job.height,
                                       job.pageWidth, job.pageHeight, job.rotation)
        IN  /\ out.rect.x = Min2(a.x, b.x)
            /\ out.rect.y = Min2(a.y, b.y)
            /\ out.rect.width = Abs(a.x - b.x)
            /\ out.rect.height = Abs(a.y - b.y)
            /\ out.rect.width >= 0
            /\ out.rect.height >= 0

C4_Witness ==
    /\ out.op = "downloadPDFWithHighlights"
    /\ job.rotation = 90
    /\ job.width > 0 /\ job.height > job.width
    /\ job.pageWidth # job.pageHeight
    /\ out.rect.width = job.height * job.pageWidth

\* C5: for a page rotation outside {0, 90, 180, 270} the point transform and
\* the highlight-rectangle transform both give the result they give for
\* rotation 0.
C5_OutOfContractAsZero ==
    (job.shape # "none" /\ job.rotation \notin ContractRotations) =>
        /\ out.op = "getRotatedCoordinates" =>
               out.p = getRotatedCoordinates(job.x, job.y, job.pageWidth,
                                             job.pageHeight, 0)
        /\ out.op = "downloadPDFWithHighlights" =>
               out.rect = HighlightRect(job, job.pageWidth, job.pageHeight, 0)

C6_Case ==
    /\ job.shape # "none"
    /\ job.x = 50 /\ job.y = 50 /\ job.pageWidth = 600 /\ job.pageHeight = 800
    /\ job.rotation = 90

\* C6 as stated: (50,50) on a 600x800 page with rotation 90 is transformed to
\* the PDF point (400,300).
C6_Original ==
    (C6_Case /\ out.op = "getRotatedCoordinates") => out.p = Pt(40000, 30000)

\* C6 (amended): (50,50) on a 600x800 page with rotation 90 is transformed to
\* the PDF point (300,400).
C6_Rotated90 ==
    (C6_Case /\ out.op = "getRotatedCoordinates") => out.p = Pt(30000, 40000)

C6_Witness ==
    C6_Case /\ out.op = "getRotatedCoordinates" /\ out.p = Pt(30000, 40000)

\* The inverse mapping for rotation r, from hundredths of a point back to
\* percentages.
C7_Inverse(p, W, H, r) ==
    CASE r = 0   -> Pt(p.x \div W, (100 * H - p.y) \div H)
      [] r = 90  -> Pt(p.y \div H, p.x \div W)
      [] r = 180 -> Pt((100 * W - p.x) \div W, p.y \div H)
      [] r = 270 -> Pt((100 * H - p.y) \div H, (100 * W - p.x) \div W)

\* C7: for each rotation in {0, 90, 180, 270} and page size W,H > 0 the
\* transform followed by the inverse mapping returns the original percentage
\* point, and two different percentage points never map to the same PDF point.
C7_Invertible ==
    (out.op = "getRotatedCoordinates" /\ job.rotation \in ContractRotations) =>
        /\ C7_Inverse(out.p, job.pageWidth, job.pageHeight, job.rotation)
              = Pt(job.x, job.y)
        /\ C7_Inverse(out.q, job.pageWidth, job.pageHeight, job.rotation)
              = Pt(job.x + job.width, job.y + job.height)
        /\ (out.p = out.q) => (job.width = 0 /\ job.height = 0)

C7_Witness ==
    /\ out.op = "getRotatedCoordinates"
    /\ job.rotation = 270
    /\ job.x # job.y
    /\ job.width > 0
    /\ out.p # out.q

-----------------------------------------------------------------------------
(* Properties of the drawing gestures, checked under Spec *)

\* The step is a pointer-up of the merging canvas that ended a gesture.
IsPointerUp == lastOp'.op = "pointerUp" /\ drawing

\* The stored strokes the gesture's points overlap, before the pointer-up.
FoundOverlaps ==
    OverlappingStrokes([pageNumber |-> pageNumber, points |-> currentPoints], strokes, 1)

IdsOf(seq) == [i \in 1..Len(seq) |-> seq[i].id]

\* C8: on pointer-up a confirmation is asked exactly when an overlap was
\* found, and unless an overlap was found and the user answered yes every
\* previously stored stroke keeps its place in the store, its points and its
\* draft flag.
C8_MergeOnlyWhenConfirmed ==
    [][IsPointerUp =>
        /\ lastOp'.asked <=> (Len(FoundOverlaps) > 0)
        /\ lastOp'.shouldMerge => lastOp'.asked
        /\ ~lastOp'.shouldMerge =>
              /\ Len(strokes') >= Len(strokes)
              /\ \A i \in 1..Len(strokes) : strokes'[i] = strokes[i]]_vars

\* The user declined a merge and the store still holds a finalized stroke.
C8_Witness ==
    /\ lastOp = Op("pointerUp", TRUE, FALSE)
    /\ \E i \in 1..Len(strokes) : ~strokes[i].isDraft
    /\ \E i \in 1..Len(strokes) : strokes[i].isDraft

DistanceExceeds(a, b, t) ==
    (Num(a.x) - Num(b.x)) * (Num(a.x) - Num(b.x))
        + (Num(a.y) - Num(b.y)) * (Num(a.y) - Num(b.y)) > t * t

RealPoints(pts) ==
    LET Real(p) == p.x # Null /\ p.y # Null IN SelectSeq(pts, Real)

\* The first k parts joined: one marker goes between two consecutive parts
\* exactly when the last non-marker point so far and the first non-marker
\* point of the next part are farther apart than 1.
RECURSIVE C9_Join(_, _)
C9_Join(parts, k) ==
    IF k = 1 THEN parts[1]
    ELSE LET sofar == C9_Join(parts, k - 1)
             before == RealPoints(sofar)
             after == RealPoints(parts[k])
         IN  IF DistanceExceeds(before[Len(before)], after[1], 1)
             THEN sofar \o <<LiftMarker>> \o parts[k]
             ELSE sofar \o parts[k]

\* The parts of a merge, in order: the main stroke, the other overlapping
\* strokes in discovery order, the newly drawn points, each simplified.
C9_Parts ==
    LET found == FoundOverlaps
        rest == SubSeq(found, 2, Len(found))
    IN  <<simplifyPath(found[1].points, 1)>>
            \o [k \in 1..Len(rest) |-> simplifyPath(rest[k].points, 1)]
            \o <<simplifyPath(currentPoints, 1)>>

MainAfter ==
    LET main == FoundOverlaps[1]
        at == CHOOSE i \in 1..Len(strokes') : strokes'[i].id = main.id
    IN  strokes'[at]

\* C9: on a confirmed merge the main stroke's new point list is the
\* concatenation of the simplified points of the main stroke, of each other
\* overlapping stroke in discovery order and of the new stroke, with one
\* marker between two consecutive parts exactly when their gap exceeds 1;
\* finalized A = [(10,10),(20,10)] and new B = [(20,10),(30,10)] give
\* [(10,10),(20,10),(20,10),(30,10)].
C9_MergedPoints ==
    [][(IsPointerUp /\ lastOp'.shouldMerge) =>
        /\ \E i \in 1..Len(strokes') : strokes'[i].id = FoundOverlaps[1].id
        /\ MainAfter.points = C9_Join(C9_Parts, Len(C9_Parts))
        /\ (/\ Len(FoundOverlaps) = 1
            /\ FoundOverlaps[1].points = <<Pt(10, 10), Pt(20, 10)>>
            /\ currentPoints = <<Pt(20, 10), Pt(30, 10)>>)
              => MainAfter.points = <<Pt(10, 10), Pt(20, 10), Pt(20, 10), Pt(30, 10)>>]_vars

\* The example of C9 has happened: the store holds the merged stroke.
C9_Witness ==
    /\ lastOp = Op("pointerUp", TRUE, TRUE)
    /\ Len(strokes) = 1
    /\ strokes[1].points = <<Pt(10, 10), Pt(20, 10), Pt(20, 10), Pt(30, 10)>>
    /\ ~strokes[1].isDraft

\* C10: after a confirmed merge the store holds the strokes it held before
\* minus the other overlapping strokes and minus the continued draft, in the
\* same order; the main stroke keeps its id, carries the merged points and is
\* no draft; no new stroke is stored; all other strokes are unchanged.
C10_MergeFrame ==
    [][(IsPointerUp /\ lastOp'.shouldMerge) =>
        LET found == FoundOverlaps
            main == found[1]
            gone == {found[k].id : k \in 2..Len(found)}
                        \cup (IF continuingDraft THEN {draftStrokeId} ELSE {})
            Stays(s) == s.id \notin gone
            kept == SelectSeq(strokes, Stays)
        IN  /\ main.id \notin gone
            /\ IdsOf(strokes') = IdsOf(kept)
            /\ nextId' = nextId
            /\ \A i \in 1..Len(kept) :
                  IF kept[i].id = main.id
                  THEN /\ strokes'[i].isDraft = FALSE
                       /\ strokes'[i].points = C9_Join(C9_Parts, Len(C9_Parts))
                       /\ strokes'[i].pageNumber = main.pageNumber
                       /\ strokes'[i].width = main.width
                  ELSE strokes'[i] = kept[i]]_vars

\* Two finalized strokes were merged with a new one: one stroke is left, and
\* it holds the points of all three.
C10_Witness ==
    /\ lastOp = Op("pointerUp", TRUE, TRUE)
    /\ nextId = 2
    /\ Len(strokes) = 1
    /\ Len(strokes[1].points) >= 6
    /\ ~strokes[1].isDraft

\* The stored point counts n1..nk of the strokes a merge joins: the
\* overlapping stored strokes, then the newly drawn points.
C18_Counts ==
    [k \in 1..Len(FoundOverlaps) |-> Len(FoundOverlaps[k].points)]
        \o <<Len(currentPoints)>>

RECURSIVE SumOf(_)
SumOf(ns) == IF Len(ns) = 0 THEN 0 ELSE ns[1] + SumOf(Tail(ns))

MaxOf(ns) == CHOOSE m \in {ns[k] : k \in 1..Len(ns)} : \A k \in 1..Len(ns) : m >= ns[k]

\* C18 as stated: the merged point list has at least max(ni) and at most
\* sum(ni) + (k-1) entries.
C18_Original ==
    [][(IsPointerUp /\ lastOp'.shouldMerge) =>
        /\ Len(MainAfter.points) >= MaxOf(C18_Counts)
        /\ Len(MainAfter.points) <= SumOf(C18_Counts) + (Len(C18_Counts) - 1)]_vars

\* C18 (amended): the merged point list has at least sum(min(ni, 2)) and at
\* most sum(ni) + (k-1) entries.
C18_MergedCount ==
    [][(IsPointerUp /\ lastOp'.shouldMerge) =>
        /\ Len(MainAfter.points)
              >= SumOf([k \in 1..Len(C18_Counts) |-> Min2(C18_Counts[k], 2)])
        /\ Len(MainAfter.points) <= SumOf(C18_Counts) + (Len(C18_Counts) - 1)]_vars

\* A stored stroke was merged with a single new point into three entries.
C18_Witness ==
    /\ lastOp = Op("pointerUp", TRUE, TRUE)
    /\ events = 5
    /\ nextId = 1
    /\ Len(strokes) = 1
    /\ Len(strokes[1].points) = 3

\* The ids in the store
StoredIds(seq) == {seq[i].id : i \in 1..Len(seq)}

\* C24: every stored stroke has at least 2 entries in its point list and a
\* positive width, and a gesture that ends with fewer than 2 points adds no
\* stroke to the store.
C24_StoredStrokeShape ==
    /\ [](\A i \in 1..Len(strokes) :
            Len(strokes[i].points) >= 2 /\ strokes[i].width > 0)
    /\ [][(drawing /\ ~drawing' /\ Len(currentPoints) < 2) =>
            StoredIds(strokes') \subseteq StoredIds(strokes)]_vars

\* A one-point gesture touched the only stroke ever stored, the user declined
\* the merge, and the store still holds just that stroke.
C24_Witness ==
    /\ lastOp = Op("pointerUp", TRUE, FALSE)
    /\ nextId = 1
    /\ Len(strokes) = 1
    /\ Len(strokes[1].points) >= 2
    /\ ~drawing

-----------------------------------------------------------------------------
(* Properties of the merging canvas on its own, checked under SpecMerge *)

\* Every stored stroke is a draft.  Under SpecMerge this holds in every
\* reachable state: addStroke always stores isDraft = TRUE, and the only
\* updateStroke that clears the flag needs an overlap with a stroke that is
\* already no draft.
EveryStrokeIsDraft == \A i \in 1..Len(strokes) : strokes[i].isDraft

-----------------------------------------------------------------------------
(* Properties of the overlap resolver, checked under SpecOverlap *)

TargetIds(results) == {results[k].targetStroke.id : k \in 1..Len(results)}

\* sqrt(a) <= t for any integer t
DistAtMost(a, t) == t >= 0 /\ RatAtMost(a, t)

\* The ids of the existing strokes on the candidate's page that are no draft,
\* have a point, and whose computed polyline distance to the candidate is at
\* most t.
C12_Qualifying(t) ==
    LET existing == ExistingOf(job)
    IN  {existing[i].id : i \in {k \in 1..Len(existing) :
            /\ existing[k].pageNumber = CandidateOf(job).pageNumber
            /\ ~existing[k].isDraft
            /\ Len(existing[k].points) > 0
            /\ DistAtMost(polylineMinDistance(job.points, existing[k].points), t)}}

\* C12 as stated: an existing stroke is reported exactly when it is on the
\* candidate's page, is no draft, has a point and its computed polyline
\* distance to the candidate is <= the threshold passed.
C12_Original ==
    (out.op = "checkStrokeOverlapAndConfirm") =>
        \A t \in Thresholds : TargetIds(out.results[t]) = C12_Qualifying(t)

\* C12 (amended): an existing stroke is reported exactly when it is on the
\* candidate's page, is no draft, has a point and its computed polyline
\* distance to the candidate is <= max(0, threshold); the bounding-box
\* pre-filter never removes such a stroke.
C12_ReportedExactly ==
    (out.op = "checkStrokeOverlapAndConfirm") =>
        \A t \in Thresholds :
            TargetIds(out.results[t]) = C12_Qualifying(IF t < 0 THEN 0 ELSE t)

\* The described stroke is within 1 of the candidate without touching it:
\* reported for threshold 1, not for threshold 0.
C12_Witness ==
    /\ out.op = "checkStrokeOverlapAndConfirm"
    /\ 1 \in TargetIds(out.results[1])
    /\ 1 \notin TargetIds(out.results[0])

\* The segments of a point sequence; a single point is a segment of length 0.
SegmentsOf(pts) ==
    IF Len(pts) = 1 THEN {<<pts[1], pts[1]>>}
    ELSE {<<pts[i], pts[i + 1]>> : i \in 1..(Len(pts) - 1)}

Cross(o, p, q) == (p.x - o.x) * (q.y - o.y) - (p.y - o.y) * (q.x - o.x)

\* The two segments cross in one interior point of both.
ProperCross(s, u) ==
    /\ Cross(s[1], s[2], u[1]) * Cross(s[1], s[2], u[2]) < 0
    /\ Cross(u[1], u[2], s[1]) * Cross(u[1], u[2], s[2]) < 0

\* Some point of one polyline lies within t of the other: two segments cross,
\* or an end of one segment is within t of the other segment.
Touches(a, b, t) ==
    \E s \in SegmentsOf(a), u \in SegmentsOf(b) :
        \/ ProperCross(s, u)
        \/ \E k \in 1..2 : \/ RatAtMost(pointSegmentDistance(s[k], u[1], u[2]), t)
                            \/ RatAtMost(pointSegmentDistance(u[k], s[1], s[2]), t)

\* C13: an existing stroke on the candidate's page that is no draft and that
\* the candidate polyline touches within the threshold is reported as an
\* overlap.
C13_TouchingIsReported ==
    (out.op = "checkStrokeOverlapAndConfirm") =>
        \A t \in {u \in Thresholds : u >= 0} :
            \A i \in 1..Len(ExistingOf(job)) :
                LET e == ExistingOf(job)[i]
                IN  (/\ Len(job.points) > 0
                     /\ e.pageNumber = CandidateOf(job).pageNumber
                     /\ ~e.isDraft
                     /\ Len(e.points) > 0
                     /\ \A k \in 1..Len(e.points) : ~IsMarker(e.points[k])
                     /\ Touches(job.points, e.points, t))
                        => e.id \in TargetIds(out.results[t])

\* C17: for all thresholds t2 < t1 the strokes found for t2 are among those
\* found for t1; no overlap for t1 means no overlap for t2.
C17_ThresholdMonotone ==
    (out.op = "checkStrokeOverlapAndConfirm") =>
        \A t1 \in Thresholds, t2 \in Thresholds :
            t2 < t1 =>
                /\ TargetIds(out.results[t2]) \subseteq TargetIds(out.results[t1])
                /\ Len(out.results[t1]) = 0 => Len(out.results[t2]) = 0

\* Nothing is found for threshold 1 and the described stroke is found for
\* threshold 3.
C17_Witness ==
    /\ out.op = "checkStrokeOverlapAndConfirm"
    /\ Len(out.results[1]) = 0
    /\ 1 \in TargetIds(out.results[3])

-----------------------------------------------------------------------------
(* Properties of the path simplifier, checked under SpecSimplify *)

\* The k-th smallest element of a set of indices
Nth(K, k) == CHOOSE i \in K : Cardinality({j \in K : j <= i}) = k

\* The points of P at the indices K, in order
Pick(P, K) == [k \in 1..Cardinality(K) |-> P[Nth(K, k)]]

\* The sets of indices of P, first and last included, at which Q stands in P
Retained(P, Q) ==
    {K \in SUBSET (1..Len(P)) : 1 \in K /\ Len(P) \in K /\ Pick(P, K) = Q}

\* Every point of P is within t of the segment between the retained points
\* that enclose its index.
WithinSpans(P, K, t) ==
    \A i \in 1..Len(P) :
        \A k \in 1..(Cardinality(K) - 1) :
            (Nth(K, k) <= i /\ i <= Nth(K, k + 1)) =>
                RatAtMost(pointSegmentDistance(P[i], P[Nth(K, k)], P[Nth(K, k + 1)]), t)

\* C14: every point of P lies within distance t of the segment of
\* simplifyPath(P, t) that spans it.
C14_WithinTolerance ==
    (out.op = "simplifyPath" /\ Len(job.points) >= 2) =>
        \E K \in Retained(job.points, out.result) :
            WithinSpans(job.points, K, job.tolerance)

\* A point far from the chord was kept and a point near a retained segment
\* was dropped.
C14_Witness ==
    /\ out.op = "simplifyPath"
    /\ job.tolerance = 10
    /\ Len(job.points) = 4
    /\ Len(out.result) = 3
    /\ Cardinality({job.points[i] : i \in 1..4}) = 4

\* No interior point of P is farther than t from the chord first-last.
AllNearChord(P, t) ==
    \A i \in 2..(Len(P) - 1) :
        RatAtMost(pointSegmentDistance(P[i], P[1], P[Len(P)]), t)

\* C15: for 2 or more points simplifyPath(P, t) is a subsequence of P that
\* starts with the first and ends with the last point of P; it is
\* [first, last] when no interior point is farther than t from the chord;
\* [(0,0),(1,0.1),(2,-0.1),(3,0)] with tolerance 1 gives [(0,0),(3,0)];
\* sequences of at most 2 points are returned unchanged.
C15_Subsequence ==
    (out.op = "simplifyPath") =>
        /\ Len(job.points) >= 2 =>
              /\ Retained(job.points, out.result) # {}
              /\ out.result[1] = job.points[1]
              /\ out.result[Len(out.result)] = job.points[Len(job.points)]
        /\ (Len(job.points) >= 2 /\ AllNearChord(job.points, job.tolerance)) =>
              out.result = <<job.points[1], job.points[Len(job.points)]>>
        /\ (job.points = <<Pt(0, 0), Pt(10, 1), Pt(20, -1), Pt(30, 0)>>
                /\ job.tolerance = 10) => out.result = <<Pt(0, 0), Pt(30, 0)>>
        /\ Len(job.points) <= 2 => out.result = job.points

C15_Witness ==
    /\ out.op = "simplifyPath"
    /\ job.points = <<Pt(0, 0), Pt(10, 1), Pt(20, -1), Pt(30, 0)>>
    /\ job.tolerance = 10
    /\ out.result = <<Pt(0, 0), Pt(30, 0)>>

\* C16: simplifyPath(simplifyPath(P, t), t) = simplifyPath(P, t).
C16_Idempotent ==
    (out.op = "simplifyPath") => out.again = out.result

\* The first simplification dropped a point and kept an interior one.
C16_Witness ==
    /\ out.op = "simplifyPath"
    /\ Len(out.result) = 3
    /\ Len(job.points) = 4
    /\ out.again = out.result

\* The calls of douglasPeucker that recurse while simplifying points, each
\* with the length of its input and the index it splits at; the walk follows
\* a split only when the split lies strictly inside the input.
RECURSIVE Splits(_, _)
Splits(points, epsilon) ==
    IF Len(points) <= 2 THEN {}
    ELSE LET m == ScanMax(points, 2, Rat(0, 1), 0)
         IN  IF RatGreaterThan(m.maxDistance, epsilon)
             THEN {[length |-> Len(points), maxIndex |-> m.maxIndex]}
                    \cup (IF 1 < m.maxIndex /\ m.maxIndex < Len(points)
                          THEN Splits(SubSeq(points, 1, m.maxIndex), epsilon)
                                 \cup Splits(SubSeq(points, m.maxIndex, Len(points)),
                                             epsilon)
                          ELSE {})
             ELSE {}

\* C29: simplifyPath terminates for every finite point sequence and every
\* tolerance t >= 0: whenever it recurses, the split index lies strictly
\* between the first and the last index, so both sub-sequences are strictly
\* shorter than the input.
C29_SplitStrictlyInside ==
    (job.shape = "path" /\ job.tolerance >= 0) =>
        /\ \A c \in Splits(job.points, job.tolerance) :
              /\ 1 < c.maxIndex /\ c.maxIndex < c.length
              \* slice(0, maxIndex + 1) and slice(maxIndex) of the input
              /\ c.maxIndex < c.length
              /\ c.length - c.maxIndex + 1 < c.length
        /\ (out.op = "simplifyPath") => Len(out.result) <= Len(job.points)

\* A simplification that recursed twice: the input of four points was split,
\* and one of its halves was split again.
C29_Witness ==
    /\ out.op = "simplifyPath"
    /\ Len(job.points) = 4
    /\ Cardinality(Splits(job.points, job.tolerance)) >= 2
    /\ Len(out.result) = 4

-----------------------------------------------------------------------------
(* Properties of an export run, checked under SpecRun *)

\* C19: when fetching, parsing and serializing succeed, an entity whose
\* drawing throws does not abort the export: every other entity is drawn and
\* the file is offered, for pins, highlights and strokes alike.
C19_EntityFailureSkipped ==
    (/\ out.op = "export"
     /\ out.pc = "done"
     /\ job.fetchOk /\ job.parseOk /\ job.saveOk
     /\ job.icon = "ok") =>
        /\ out.drawn = {i \in 1..MaxEntities : job.entities[i] = "ok"}
        /\ out.offered

\* C20: when fetching or parsing the source PDF fails the run ends rejected
\* and no file is offered; a file is offered only after every entity has had
\* its turn and the document was serialized.
C20_FailureRejected ==
    (out.op = "export") =>
        /\ (out.pc = "done" /\ ~(job.fetchOk /\ job.parseOk)) =>
              (out.outcome = "rejected" /\ ~out.offered)
        /\ out.offered =>
              (job.fetchOk /\ job.parseOk /\ job.saveOk /\ out.next > MaxEntities)

\* C21: when the decoration icon cannot be fetched or decoded and nothing
\* else fails, a finished export of strokes has drawn every stroke and offered
\* the file.
C21_IconFailureNonFatal ==
    (/\ out.op = "export"
     /\ out.pc = "done"
     /\ job.fn \in StrokeExports
     /\ job.icon # "ok"
     /\ job.fetchOk /\ job.parseOk /\ job.saveOk
     /\ \A i \in 1..MaxEntities : job.entities[i] = "ok") =>
        /\ out.drawn = 1..MaxEntities
        /\ out.offered

-----------------------------------------------------------------------------
(* Properties of an export run under fair progress, checked under SpecRunFair *)

\* C28: every run of downloadPDFWithAnnotations and donwloadKeyPointForStroke
\* eventually resolves or rejects, whatever happens to the icon.
C28_EventuallySettles ==
    (job.fn \in StrokeExports) => <>(out.op = "export" /\ out.outcome # "pending")

-----------------------------------------------------------------------------
(* Properties of the highlight export, checked under SpecExport *)

\* C22: exporting a highlight with a note emits the filled rectangle, a
\* Highlight annotation object and a linked Popup annotation; exporting one
\* without a note emits only the rectangle.
C22_NoteEmitsAnnotation ==
    (out.op = "downloadPDFWithHighlights") =>
        out.emitted = IF job.note THEN {"rectangle", "Highlight", "Popup"}
                                  ELSE {"rectangle"}

-----------------------------------------------------------------------------
(* Properties of the highlight gestures, checked under SpecHighlights *)

-----------------------------------------------------------------------------
(* Properties of the pins and of the tool buttons, checked under SpecViewer *)

\* C25: every stored pin satisfies 0 <= x <= 100 and 0 <= y <= 100; a click
\* off the page leaves no place for the dialog to create a pin at, and a pin
\* is only ever created at the place of the last click on the page.
C25_PinOnPage ==
    /\ [](/\ \A i \in 1..Len(pins) : OnPage(pins[i])
          /\ pinDetail # NoPoint => OnPage(pinDetail))
    /\ [][(Len(pins') > Len(pins) /\ pinDetail # NoPoint) =>
            /\ pins'[Len(pins')].x = pinDetail.x
            /\ pins'[Len(pins')].y = pinDetail.y]_vars

\* A pin placed in the top left corner of the page was dragged to the top
\* right corner and its title edited.
C25_Witness ==
    /\ Len(pins) = 1
    /\ pinDetail # NoPoint
    /\ pinDetail.x = 0 /\ pinDetail.y = 0
    /\ pins[1].x = 100 /\ pins[1].y = 0
    /\ pins[1].title = "B"

\* The number of active tool modes
ActiveModes ==
    Cardinality({k \in 1..5 :
        <<isHighlightingMode, isPinningMode, isMarkerMode, isEraserMode, isDragMode>>[k]})

\* C30: at most one of the five tool modes is active.
C30_OneModeAtMost == ActiveModes <= 1

-----------------------------------------------------------------------------
(* Properties of draft strokes, checked under SpecDraft *)

\* The draft strokes of the current page, as indices into the store
PageDrafts == {i \in 1..Len(strokes) :
                  strokes[i].pageNumber = pageNumber /\ strokes[i].isDraft}

\* C27: a page has at most one draft stroke; while it has one, a drawing
\* pointer-down farther than 2 from the draft's last point starts no drawing
\* and changes neither the store nor the gesture, one within 2 continues the
\* draft, and ending a continued draft stores no new stroke.
C27_OneDraftPerPage ==
    /\ [](Cardinality(PageDrafts) <= 1)
    /\ [][\A norm \in DraftPositions :
            (pointerDown(norm, FALSE) /\ PageDrafts # {}) =>
                LET d == CHOOSE i \in PageDrafts : TRUE
                    lastPoint == strokes[d].points[Len(strokes[d].points)]
                IN  IF DistanceExceeds(lastPoint, norm, 2)
                    THEN /\ strokes' = strokes
                         /\ drawing' = drawing
                         /\ currentPoints' = currentPoints
                    ELSE /\ strokes' = strokes
                         /\ drawing'
                         /\ continuingDraft'
                         /\ draftStrokeId' = strokes[d].id]_vars
    /\ [][(drawing /\ ~drawing' /\ continuingDraft) => nextId' = nextId]_vars

\* The draft [(10,13), (10,10)] was continued by a pointer-down within 2 of
\* its last point and has grown by the point (10,12); it is still the only
\* stroke ever stored.
C27_Witness ==
    /\ mounted = "merge"
    /\ drawing
    /\ continuingDraft
    /\ events = 4
    /\ nextId = 1
    /\ Len(strokes) = 1
    /\ strokes[1].isDraft
    /\ draftStrokeId = strokes[1].id
    /\ strokes[1].points = <<Pt(10, 13), Pt(10, 10), Pt(10, 12)>>

-----------------------------------------------------------------------------
(* Properties of an export during drawing, checked under SpecSnapshot *)

\* C26: the points an export renders are those the store held when the export
\* was invoked, and no step of the export changes a stroke, pin or highlight
\* of the store.
C26_RendersSnapshot ==
    /\ [](out.op = "downloadPDFWithAnnotations" =>
            out.rendered = [i \in 1..Len(job.atInvocation) |->
                               job.atInvocation[i].points])
    /\ [][out' # out => UNCHANGED <<strokes, pins, highlights>>]_vars

====
